---- MODULE Spec2Model ----
(***************************************************************************)
(* Trend / scoring engine of the Data Analyst agent (src/data_analyst.py)  *)
(* and the REST wrapper around it (src/api_server.py).                     *)
(*                                                                         *)
(* Python dicts are functions with a string domain; {} is the function     *)
(* with the empty domain.  An argument that may be None is a sequence of   *)
(* length 0 (None) or 1 (the value).                                       *)
(*                                                                         *)
(* Floats are fixed-point integers, computed exactly:                      *)
(*   scores, overall_score, score_change   1/2000 of a score point         *)
(*   average_position, position_change     1/100  of a rank                *)
(*   average_ctr, conversion_rate, engagement_rate   1/10000               *)
(*   bounce_rate, bounce_rate_change       1/1000                          *)
(*   change_pct                            1/10 of a percent               *)
(*   counts (clicks, impressions, sessions, ...)  units                    *)
(* round(x, n) is round-half-to-even on the exact value.                   *)
(***************************************************************************)
EXTENDS Integers, Sequences, FiniteSets, TLC

VARIABLES
    weights,    \* DataAnalyst.weights
    sGsc,       \* calculate_overall_scores: argument gsc_data
    sGa4,       \* calculate_overall_scores: argument ga4_data
    sMeta,      \* calculate_overall_scores: argument meta_data
    sCalled,    \* calculate_overall_scores has returned
    sResult,    \* calculate_overall_scores: the returned scores
    tCurrent,   \* _calculate_trend: argument current
    tPrevious,  \* _calculate_trend: argument previous
    tCalled,    \* _calculate_trend has returned
    tResult,    \* _calculate_trend: the returned dict
    rRequested, \* generate_unified_report: argument channels
    rGsc,       \* generate_unified_report: outcome of fetch_gsc_analytics
    rGa4,       \* generate_unified_report: outcome of fetch_ga4_analytics
    rDim,       \* generate_unified_report: outcome of the device / source query
    rMeta,      \* generate_unified_report: outcome of fetch_meta_insights
    rCalled,    \* generate_unified_report has returned
    rResult,    \* generate_unified_report: the returned report
    fileExists, \* history/history_<site>.json exists
    history,    \* the JSON text of history/history_<site>.json
    now,        \* datetime.now(), in days
    pc,         \* position of the analysis run in progress
    runKind,    \* "cli" (main, run_scheduled_analysis), "api" (analyze_site)
    report,     \* the run's report
    trends,     \* the run's result of analyze_trends
    resp,       \* the last response of GET /api/trends/{site}
    gTrends,    \* generate_growth_recommendations: argument trends
    gCalled,    \* generate_growth_recommendations has returned
    gResult,    \* generate_growth_recommendations: the returned list
    nGsc,       \* _generate_recommendations: argument gsc
    nGa4,       \* _generate_recommendations: argument ga4
    nMeta,      \* _generate_recommendations: argument meta
    nCalled,    \* _generate_recommendations has returned
    nResult,    \* _generate_recommendations: the returned list
    aCalled,    \* analyze_trends, called on any history file, has returned
    aResult,    \* the trends it returned
    saved,      \* every snapshot handed to save_historical_data so far
    loaded,     \* the list the last load_historical_data returned
    loadOk,     \* the last operation on the file was a load that succeeded
    svPc,       \* position of each run inside save_historical_data
    svReport,   \* the report each run saves
    svHistory   \* the local list history of each run's save_historical_data

scoreVars == <<sGsc, sGa4, sMeta, sCalled, sResult>>
trendVars == <<tCurrent, tPrevious, tCalled, tResult>>
reportVars == <<rRequested, rGsc, rGa4, rDim, rMeta, rCalled, rResult>>
fileVars == <<fileExists, history>>
runVars == <<pc, runKind, report, trends>>
pipeVars == <<fileVars, now, runVars, resp>>
recVars == <<gTrends, gCalled, gResult, nGsc, nGa4, nMeta, nCalled, nResult>>
callVars == <<aCalled, aResult>>
storeVars == <<saved, loaded, loadOk>>
saveVars == <<svPc, svReport, svHistory>>
otherVars == <<recVars, callVars, storeVars, saveVars>>
vars == <<weights, scoreVars, trendVars, reportVars, pipeVars, otherVars>>

----------------------------------------------------------------------------
(* Python values *)

EmptyDict == [k \in {} |-> 0]

None == <<>>

Some(v) == <<v>>

\* dict.get(k, def)
Get(d, k, def) == IF k \in DOMAIN d THEN d[k] ELSE def

\* truth value of an Optional[Dict]: None and {} are false
Truthy(opt) == Len(opt) = 1 /\ DOMAIN opt[1] # {}

\* truth value of a dict
NonEmpty(d) == DOMAIN d # {}

Restrict(d, K) == [k \in K |-> d[k]]

Min(a, b) == IF a < b THEN a ELSE b

Max(a, b) == IF a > b THEN a ELSE b

Abs(a) == IF a < 0 THEN -a ELSE a

\* round(n / d) for d > 0, ties to the even integer (Python 3 round)
RoundHalfEven(n, d) ==
    LET q == n \div d
        r == n % d
    IN  IF 2 * r < d THEN q
        ELSE IF 2 * r > d THEN q + 1
        ELSE IF q % 2 = 0 THEN q ELSE q + 1

\* round(n / d) for any d # 0
RoundDiv(n, d) == IF d > 0 THEN RoundHalfEven(n, d) ELSE RoundHalfEven(-n, -d)

\* one score point, in the unit of the scores
Pt == 2 * 1000

----------------------------------------------------------------------------
(* DataAnalyst.__init__ *)

InitialWeights ==
    [search_visibility   |-> 20,
     ga4_performance     |-> 30,
     meta_performance    |-> 20,
     technical_health    |-> 15,
     content_performance |-> 15]

----------------------------------------------------------------------------
(* DataAnalyst.calculate_overall_scores *)

SearchVisibilityScore_AbsentZero(gsc_data) ==
    IF Truthy(gsc_data)
    THEN LET d == gsc_data[1]
             visibility == Min(100 * 1000,
                               Get(d, "total_clicks", 0) * 10
                                 + Get(d, "total_impressions", 0))
             content_score ==
                 Max(0, 100 * 1000 - (Get(d, "average_position", 50 * 100) - 100) * 50)
         IN  Min(100 * Pt, visibility + content_score)
    ELSE 0

SearchVisibilityScore(gsc_data) ==
    IF Truthy(gsc_data)
    THEN LET d == gsc_data[1]
             total_clicks == Get(d, "total_clicks", 0)
             total_impressions == Get(d, "total_impressions", 0)
             avg_position == Get(d, "average_position", 50 * 100)
             \* visibility and content_score in 1/1000 point
             visibility == Min(100 * 1000, total_clicks * 10 + total_impressions)
             content_score == Max(0, 100 * 1000 - (avg_position - 100) * 50)
         IN  \* (visibility + content_score) / 2, in 1/2000 point
             Min(100 * Pt, visibility + content_score)
    ELSE 50 * Pt

Ga4PerformanceScore(ga4_data) ==
    IF Truthy(ga4_data)
    THEN LET d == ga4_data[1]
             bounce_rate == Get(d, "bounce_rate", 1000)
             conversion_rate == Get(d, "conversion_rate", 0)
             \* 100 - bounce_rate * 100 + conversion_rate * 500
             ga4_score == 100 * Pt - bounce_rate * 200 + conversion_rate * 100
         IN  Max(0, Min(100 * Pt, ga4_score))
    ELSE 50 * Pt

MetaPerformanceScore(meta_data) ==
    IF Truthy(meta_data)
    THEN LET d == meta_data[1]
             engagement_rate == Get(d, "engagement_rate", 0)
             \* engagement_rate * 1000
             meta_score == engagement_rate * 200
         IN  Min(100 * Pt, meta_score)
    ELSE 50 * Pt

ScoreCategories ==
    {"search_visibility", "ga4_performance", "meta_performance",
     "technical_health", "content_performance"}

RECURSIVE SumOver(_, _)
SumOver(S, f) ==
    IF S = {} THEN 0
    ELSE LET x == CHOOSE y \in S : TRUE
         IN  f[x] + SumOver(S \ {x}, f)

\* sum(scores[cat] * weight for cat, weight in self.weights.items()),
\* in 1/100 of the unit of the scores
WeightedSum(scores, w) ==
    SumOver(DOMAIN w, [cat \in DOMAIN w |-> scores[cat] * w[cat]])

calculate_overall_scores(gsc_data, ga4_data, meta_data, w) ==
    LET scores ==
            [search_visibility   |-> SearchVisibilityScore(gsc_data),
             ga4_performance     |-> Ga4PerformanceScore(ga4_data),
             meta_performance    |-> MetaPerformanceScore(meta_data),
             technical_health    |-> 75 * Pt,
             content_performance |-> 75 * Pt]
        \* round(overall, 2): a multiple of 1/100 point, which is Pt / 100 units
        overall == (Pt \div 100) * RoundDiv(WeightedSum(scores, w), Pt)
    IN  [c \in ScoreCategories \cup {"overall"} |->
            IF c = "overall" THEN overall ELSE scores[c]]

----------------------------------------------------------------------------
(* Fetching: a fetch either fails (no service, no token, an API error or an  *)
(* exception, all answered by the _generate_*_demo payload) or returns the   *)
(* payload of the API.                                                        *)

FetchFailed == [ok |-> FALSE]

Fetched(payload) == [ok |-> TRUE, payload |-> payload]

_generate_gsc_demo == <<>>

_generate_ga4_demo == [rows |-> <<>>]

_generate_meta_demo ==
    [error     |-> "Meta access token expired or invalid",
     data      |-> <<>>,
     fan_count |-> 0,
     available |-> FALSE]

fetch_gsc_analytics(outcome) ==
    IF outcome.ok THEN outcome.payload ELSE _generate_gsc_demo

fetch_ga4_analytics(outcome) ==
    IF outcome.ok THEN outcome.payload ELSE _generate_ga4_demo

fetch_meta_insights(outcome) ==
    IF outcome.ok THEN outcome.payload ELSE _generate_meta_demo

----------------------------------------------------------------------------
(* Channel normalizers *)

RECURSIVE SumSeq(_)
SumSeq(s) == IF s = <<>> THEN 0 ELSE Head(s) + SumSeq(Tail(s))

\* [f(x) for x in s]
MapGet(s, k, def) == [i \in 1 .. Len(s) |-> Get(s[i], k, def)]

\* int(x / d) for d > 0: truncation toward zero
TruncDiv(n, d) == IF n >= 0 THEN n \div d ELSE -((-n) \div d)

\* average_position as the plain mean of the rows' positions
_analyze_gsc_SimpleMean(query_data) ==
    IF query_data = <<>> THEN EmptyDict
    ELSE
    LET total_clicks == SumSeq(MapGet(query_data, "clicks", 0))
        total_impressions == SumSeq(MapGet(query_data, "impressions", 0))
        IsTop3(row) == Get(row, "position", 9900) <= 300
        Is4To10(row) == 300 < Get(row, "position", 9900)
                          /\ Get(row, "position", 9900) <= 1000
    IN  [total_queries     |-> Len(query_data),
         total_clicks      |-> total_clicks,
         total_impressions |-> total_impressions,
         average_ctr       |-> IF total_impressions > 0
                               THEN RoundDiv(total_clicks * 10000, total_impressions)
                               ELSE 0,
         average_position  |-> RoundDiv(SumSeq(MapGet(query_data, "position", 0)),
                                        Len(query_data)),
         top_3_rankings    |->
             Cardinality({i \in 1 .. Len(query_data) : IsTop3(query_data[i])}),
         positions_4_10    |->
             Cardinality({i \in 1 .. Len(query_data) : Is4To10(query_data[i])}),
         top_queries       |-> SubSeq(query_data, 1, Min(10, Len(query_data)))]

\* average_ctr as the plain mean of the rows' click-through rates
_analyze_gsc_MeanOfCtr(query_data) ==
    IF query_data = <<>> THEN EmptyDict
    ELSE
    LET total_clicks == SumSeq(MapGet(query_data, "clicks", 0))
        total_impressions == SumSeq(MapGet(query_data, "impressions", 0))
        RowCtr(row) == IF Get(row, "impressions", 0) > 0
                       THEN RoundDiv(Get(row, "clicks", 0) * 10000,
                                     Get(row, "impressions", 0))
                       ELSE 0
        weighted == SumSeq([i \in 1 .. Len(query_data) |->
                        Get(query_data[i], "position", 0)
                          * Get(query_data[i], "impressions", 0)])
        IsTop3(row) == Get(row, "position", 9900) <= 300
        Is4To10(row) == 300 < Get(row, "position", 9900)
                          /\ Get(row, "position", 9900) <= 1000
    IN  [total_queries     |-> Len(query_data),
         total_clicks      |-> total_clicks,
         total_impressions |-> total_impressions,
         average_ctr       |-> RoundDiv(SumSeq([i \in 1 .. Len(query_data) |->
                                                   RowCtr(query_data[i])]),
                                        Len(query_data)),
         average_position  |-> IF total_impressions > 0
                               THEN RoundDiv(weighted, total_impressions)
                               ELSE 0,
         top_3_rankings    |->
             Cardinality({i \in 1 .. Len(query_data) : IsTop3(query_data[i])}),
         positions_4_10    |->
             Cardinality({i \in 1 .. Len(query_data) : Is4To10(query_data[i])}),
         top_queries       |-> SubSeq(query_data, 1, Min(10, Len(query_data)))]

\* DataAnalyst._analyze_gsc; a row's position is in 1/100 of a rank
_analyze_gsc(query_data) ==
    IF query_data = <<>> THEN EmptyDict
    ELSE
    LET total_clicks == SumSeq(MapGet(query_data, "clicks", 0))
        total_impressions == SumSeq(MapGet(query_data, "impressions", 0))
        avg_ctr == IF total_impressions > 0
                   THEN RoundDiv(total_clicks * 10000, total_impressions)
                   ELSE 0
        weighted == SumSeq([i \in 1 .. Len(query_data) |->
                        Get(query_data[i], "position", 0)
                          * Get(query_data[i], "impressions", 0)])
        avg_position == IF total_impressions > 0
                        THEN RoundDiv(weighted, total_impressions)
                        ELSE 0
        IsTop3(row) == Get(row, "position", 9900) <= 300
        Is4To10(row) == 300 < Get(row, "position", 9900)
                          /\ Get(row, "position", 9900) <= 1000
    IN  [total_queries     |-> Len(query_data),
         total_clicks      |-> total_clicks,
         total_impressions |-> total_impressions,
         average_ctr       |-> avg_ctr,
         average_position  |-> avg_position,
         top_3_rankings    |->
             Cardinality({i \in 1 .. Len(query_data) : IsTop3(query_data[i])}),
         positions_4_10    |->
             Cardinality({i \in 1 .. Len(query_data) : Is4To10(query_data[i])}),
         top_queries       |-> SubSeq(query_data, 1, Min(10, Len(query_data)))]

\* the device / source query inside analyze_ga4_performance: dim is the
\* outcome of the second runReport call, rows of <<device, source, sessions>>
RECURSIVE Breakdown(_, _, _)
Breakdown(rows, col, acc) ==
    IF rows = <<>> THEN acc
    ELSE LET key == Head(rows)[col]
             sessions == Head(rows)[3]
             next == [k \in DOMAIN acc \cup {key} |->
                         IF k = key THEN Get(acc, key, 0) + sessions ELSE acc[k]]
         IN  Breakdown(Tail(rows), col, next)

\* DataAnalyst.analyze_ga4_performance.  A row or a totals entry is
\* [metricValues |-> <<sessions, users, pageviews, duration, bounce, conversions>>]
\* with the values already parsed: duration in 1/10 s, bounce in 1/1000.
analyze_ga4_performance(ga4_data, dim) ==
    IF ~NonEmpty(ga4_data) \/ Get(ga4_data, "rows", <<>>) = <<>> THEN EmptyDict
    ELSE
    LET totals == Get(ga4_data, "totals", <<>>)
        rows == Get(ga4_data, "rows", <<>>)
        useTotals == totals # <<>>
        total_vals == Get(totals[1], "metricValues", <<>>)
        At(i) == IF Len(total_vals) >= i THEN total_vals[i] ELSE 0
        \* r["metricValues"][2] raises IndexError on a short row, and the
        \* outer handler returns {}
        raises == ~useTotals /\ \E i \in 1 .. Len(rows) : Len(rows[i].metricValues) < 3
        Col(j) == SumSeq([i \in 1 .. Len(rows) |-> rows[i].metricValues[j]])
        ColFrom(j) == SumSeq([i \in 1 .. Len(rows) |->
                        IF Len(rows[i].metricValues) >= j
                        THEN rows[i].metricValues[j] ELSE 0])
        total_sessions == IF useTotals THEN At(1) ELSE Col(1)
        total_users == IF useTotals THEN At(2) ELSE Col(2)
        total_pageviews == IF useTotals THEN At(3) ELSE Col(3)
        avg_duration == IF useTotals THEN At(4) ELSE 0
        \* round(bounce_rate, 3): the mean over the rows in the rows branch
        bounce_rate == IF useTotals THEN At(5) ELSE RoundDiv(ColFrom(5), Len(rows))
        conversions == IF useTotals THEN At(6) ELSE ColFrom(6)
        device_breakdown == IF dim.ok THEN Breakdown(dim.payload, 1, EmptyDict)
                            ELSE EmptyDict
        source_breakdown == IF dim.ok THEN Breakdown(dim.payload, 2, EmptyDict)
                            ELSE EmptyDict
    IN  IF raises THEN EmptyDict
        ELSE [total_sessions       |-> total_sessions,
              total_users          |-> total_users,
              total_pageviews      |-> total_pageviews,
              avg_session_duration |-> avg_duration,
              bounce_rate          |-> bounce_rate,
              conversions          |-> conversions,
              conversion_rate      |-> IF total_sessions > 0
                                       THEN RoundDiv(conversions * 10000, total_sessions)
                                       ELSE 0,
              device_breakdown     |-> device_breakdown,
              source_breakdown     |-> source_breakdown]

\* the loop of analyze_meta_performance over meta_data["data"]
RECURSIVE MetaMetrics(_, _)
MetaMetrics(items, acc) ==
    IF items = <<>> THEN acc
    ELSE LET item == Head(items)
             name == item["name"]
             values == Get(item, "values", <<>>)
             v == IF Get(item, "period", "") = "lifetime"
                  THEN (IF values # <<>> THEN Get(values[1], "value", 0) ELSE 0)
                  ELSE SumSeq(MapGet(values, "value", 0))
         IN  MetaMetrics(Tail(items),
                         [k \in DOMAIN acc \cup {name} |-> IF k = name THEN v ELSE acc[k]])

\* DataAnalyst._analyze_audience on a payload without audience data
_analyze_audience == [gender |-> EmptyDict, age |-> EmptyDict]

\* DataAnalyst._analyze_ads on a payload without ads or campaigns, the ad
\* account lookup finding nothing
_analyze_ads ==
    [metrics |-> EmptyDict, campaigns |-> <<>>,
     total_spend |-> 0, total_impressions |-> 0, total_reach |-> 0]

\* an empty payload normalized to a record of zeros instead of {}
analyze_meta_performance_Zeroed(meta_data) ==
    LET data == Get(meta_data, "data", <<>>)
        raises == \E i \in 1 .. Len(data) : "name" \notin DOMAIN data[i]
        metrics == MetaMetrics(data, EmptyDict)
        impressions == Get(metrics, "page_impressions_unique", 0)
        engaged == TruncDiv(impressions, 20)
    IN  IF raises THEN EmptyDict
        ELSE [total_impressions     |-> impressions,
              total_engaged_users   |-> engaged,
              total_fans            |-> Get(meta_data, "fan_count", 5420),
              engagement_rate       |-> IF impressions > 0
                                        THEN RoundDiv(engaged * 10000, impressions)
                                        ELSE 0,
              avg_daily_impressions |-> IF impressions > 0 THEN impressions \div 7 ELSE 0,
              avg_daily_engaged     |-> IF engaged > 0 THEN engaged \div 7 ELSE 0,
              page_views            |-> Get(metrics, "page_views", 0),
              post_engagements      |-> Get(metrics, "page_post_engagements", 0),
              recent_posts          |-> <<>>,
              audience              |-> _analyze_audience,
              ads_insights          |-> _analyze_ads]

\* engaged users rounded up, not truncated
analyze_meta_performance_RoundedUp(meta_data) ==
    IF ~NonEmpty(meta_data) \/ Get(meta_data, "data", <<>>) = <<>> THEN EmptyDict
    ELSE
    LET data == meta_data["data"]
        \* item["name"] raises KeyError, and the handler returns {}
        raises == \E i \in 1 .. Len(data) : "name" \notin DOMAIN data[i]
        metrics == MetaMetrics(data, EmptyDict)
        impressions == Get(metrics, "page_impressions_unique", 0)
        engaged == (impressions + 19) \div 20
        fans == Get(meta_data, "fan_count", 5420)
    IN  IF raises THEN EmptyDict
        ELSE [total_impressions     |-> impressions,
              total_engaged_users   |-> engaged,
              total_fans            |-> fans,
              engagement_rate       |-> IF impressions > 0
                                        THEN RoundDiv(engaged * 10000, impressions)
                                        ELSE 0,
              avg_daily_impressions |-> IF impressions > 0 THEN impressions \div 7 ELSE 0,
              avg_daily_engaged     |-> IF engaged > 0 THEN engaged \div 7 ELSE 0,
              page_views            |-> Get(metrics, "page_views", 0),
              post_engagements      |-> Get(metrics, "page_post_engagements", 0),
              recent_posts          |-> <<>>,
              audience              |-> _analyze_audience,
              ads_insights          |-> _analyze_ads]

\* DataAnalyst.analyze_meta_performance, on payloads that carry no posts,
\* audience or ads
analyze_meta_performance(meta_data) ==
    IF ~NonEmpty(meta_data) \/ Get(meta_data, "data", <<>>) = <<>> THEN EmptyDict
    ELSE
    LET data == meta_data["data"]
        \* item["name"] raises KeyError, and the handler returns {}
        raises == \E i \in 1 .. Len(data) : "name" \notin DOMAIN data[i]
        metrics == MetaMetrics(data, EmptyDict)
        impressions == Get(metrics, "page_impressions_unique", 0)
        \* int(impressions * 0.05)
        engaged == TruncDiv(impressions, 20)
        fans == Get(meta_data, "fan_count", 5420)
    IN  IF raises THEN EmptyDict
        ELSE [total_impressions     |-> impressions,
              total_engaged_users   |-> engaged,
              total_fans            |-> fans,
              engagement_rate       |-> IF impressions > 0
                                        THEN RoundDiv(engaged * 10000, impressions)
                                        ELSE 0,
              avg_daily_impressions |-> IF impressions > 0 THEN impressions \div 7 ELSE 0,
              avg_daily_engaged     |-> IF engaged > 0 THEN engaged \div 7 ELSE 0,
              page_views            |-> Get(metrics, "page_views", 0),
              post_engagements      |-> Get(metrics, "page_post_engagements", 0),
              recent_posts          |-> <<>>,
              audience              |-> _analyze_audience,
              ads_insights          |-> _analyze_ads]

----------------------------------------------------------------------------
(* DataAnalyst.generate_unified_report.  Of the report the model keeps     *)
(* overall_score, scores and channels; site_url, analysis_period_days,     *)
(* generated_at, recommendations and summary are not read by the trend or  *)
(* scoring code.                                                            *)

AllChannels == {"gsc", "ga4", "meta"}

GscAnalysis(channels, gscOut) ==
    LET gsc_data == fetch_gsc_analytics(gscOut)
    IN  IF "gsc" \in channels /\ gsc_data # <<>>
        THEN _analyze_gsc(gsc_data) ELSE EmptyDict

Ga4Analysis(channels, ga4Out, dim) ==
    LET ga4_raw == fetch_ga4_analytics(ga4Out)
    IN  IF "ga4" \in channels /\ NonEmpty(ga4_raw)
        THEN analyze_ga4_performance(ga4_raw, dim) ELSE EmptyDict

MetaAnalysis(channels, metaOut) ==
    LET meta_raw == fetch_meta_insights(metaOut)
    IN  IF "meta" \in channels /\ NonEmpty(meta_raw)
        THEN analyze_meta_performance(meta_raw) ELSE EmptyDict

generate_unified_report(requested, gscOut, ga4Out, dim, metaOut, w) ==
    LET \* channels = channels or ["gsc", "ga4", "meta"]
        channels == IF requested = {} THEN AllChannels ELSE requested
        gsc_analysis == GscAnalysis(channels, gscOut)
        ga4_analysis == Ga4Analysis(channels, ga4Out, dim)
        meta_analysis == MetaAnalysis(channels, metaOut)
        scores == calculate_overall_scores(Some(gsc_analysis), Some(ga4_analysis),
                                           Some(meta_analysis), w)
    IN  [overall_score |-> scores["overall"],
         scores        |-> scores,
         channels      |-> [gsc  |-> gsc_analysis,
                            ga4  |-> ga4_analysis,
                            meta |-> meta_analysis]]

----------------------------------------------------------------------------
(* Inputs of the score calculator *)

ClickVals == {-5000, 0, 10000}

ImpressionVals == {0, 50000}

PositionVals == {0, 100, 1000, 3000}

BounceVals == {-200, 450, 1500}

ConversionVals == {0, 250}

EngagementVals == {-10000, 0, 230, 2000}

GscFull ==
    [total_clicks : ClickVals, total_impressions : ImpressionVals,
     average_position : PositionVals, total_queries : {1}]

Ga4Full ==
    [bounce_rate : BounceVals, conversion_rate : ConversionVals,
     total_sessions : {1}]

MetaFull == [engagement_rate : EngagementVals, total_fans : {1}]

\* every dict that holds some of the keys of a dict of Full
DictsOf(Full, Keys) == {Restrict(d, K) : d \in Full, K \in SUBSET Keys}

GscArgs ==
    {None} \cup
    {Some(d) : d \in DictsOf(GscFull,
        {"total_clicks", "total_impressions", "average_position", "total_queries"})}

Ga4Args ==
    {None} \cup
    {Some(d) : d \in DictsOf(Ga4Full,
        {"bounce_rate", "conversion_rate", "total_sessions"})}

MetaArgs ==
    {None} \cup
    {Some(d) : d \in DictsOf(MetaFull, {"engagement_rate", "total_fans"})}

----------------------------------------------------------------------------
(* The score calculator called on any input *)

InitIdleScores ==
    /\ sGsc = None
    /\ sGa4 = None
    /\ sMeta = None
    /\ sCalled = FALSE
    /\ sResult = EmptyDict

InitIdleTrend ==
    /\ tCurrent = 0
    /\ tPrevious = 0
    /\ tCalled = FALSE
    /\ tResult = EmptyDict

InitIdleReport ==
    /\ rRequested = {}
    /\ rGsc = FetchFailed
    /\ rGa4 = FetchFailed
    /\ rDim = FetchFailed
    /\ rMeta = FetchFailed
    /\ rCalled = FALSE
    /\ rResult = EmptyDict

NoResponse == [status |-> 0, body |-> EmptyDict]

InitIdleRecs ==
    /\ gTrends = EmptyDict
    /\ gCalled = FALSE
    /\ gResult = <<>>
    /\ nGsc = EmptyDict
    /\ nGa4 = EmptyDict
    /\ nMeta = EmptyDict
    /\ nCalled = FALSE
    /\ nResult = <<>>

InitIdleCall ==
    /\ aCalled = FALSE
    /\ aResult = EmptyDict

InitIdleStore ==
    /\ saved = <<>>
    /\ loaded = <<>>
    /\ loadOk = FALSE

MaxRuns == 2

Runs == 1 .. MaxRuns

InitIdleSaves ==
    /\ svPc = [p \in Runs |-> "idle"]
    /\ svReport = [p \in Runs |-> EmptyDict]
    /\ svHistory = [p \in Runs |-> <<>>]

InitIdleOther == InitIdleRecs /\ InitIdleCall /\ InitIdleStore /\ InitIdleSaves

InitPipe ==
    /\ fileExists = FALSE
    /\ history = <<>>
    /\ now = 0
    /\ pc = "idle"
    /\ runKind = "none"
    /\ report = EmptyDict
    /\ trends = EmptyDict
    /\ resp = NoResponse

InitScores ==
    /\ weights = InitialWeights
    /\ sGsc \in GscArgs
    /\ sGa4 \in Ga4Args
    /\ sMeta \in MetaArgs
    /\ sCalled = FALSE
    /\ sResult = EmptyDict
    /\ InitIdleTrend
    /\ InitIdleReport
    /\ InitPipe
    /\ InitIdleOther

CalculateOverallScores ==
    /\ ~sCalled
    /\ sResult' = calculate_overall_scores(sGsc, sGa4, sMeta, weights)
    /\ sCalled' = TRUE
    /\ UNCHANGED <<weights, otherVars, sGsc, sGa4, sMeta, trendVars, reportVars, pipeVars>>

NextScores == CalculateOverallScores

SpecScores == InitScores /\ [][NextScores]_vars

----------------------------------------------------------------------------
(* DataAnalyst._calculate_trend *)

\* the zero test on current instead of previous, and no rounding to a tenth
_calculate_trend_GuardCurrent(current, previous) ==
    IF current = 0 \/ previous = 0
    THEN [current    |-> current,
          previous   |-> previous,
          change     |-> current - previous,
          change_pct |-> 0,
          direction  |-> IF current > previous THEN "up"
                         ELSE IF current < previous THEN "down" ELSE "stable"]
    ELSE LET change == current - previous
         IN  [current    |-> current,
              previous   |-> previous,
              change     |-> change,
              change_pct |-> 10 * RoundDiv(change * 100, previous),
              direction  |-> IF change > 0 THEN "up"
                             ELSE IF change < 0 THEN "down" ELSE "stable"]

_calculate_trend(current, previous) ==
    IF previous = 0
    THEN [current    |-> current,
          previous   |-> previous,
          change_pct |-> 0,
          direction  |-> "new"]
    ELSE LET change == current - previous
         IN  [current    |-> current,
              previous   |-> previous,
              change     |-> change,
              \* round((change / previous) * 100, 1), in tenths of a percent
              change_pct |-> RoundDiv(change * 1000, previous),
              direction  |-> IF change > 0 THEN "up"
                             ELSE IF change < 0 THEN "down" ELSE "stable"]

----------------------------------------------------------------------------
(* The metric trend called on any pair of numbers *)

MaxMetric == 12

MetricVals == (-MaxMetric .. MaxMetric) \cup {100, 150}

InitTrend ==
    /\ weights = InitialWeights
    /\ InitIdleScores
    /\ tCurrent \in MetricVals
    /\ tPrevious \in MetricVals
    /\ tCalled = FALSE
    /\ tResult = EmptyDict
    /\ InitIdleReport
    /\ InitPipe
    /\ InitIdleOther

CalculateTrend ==
    /\ ~tCalled
    /\ tResult' = _calculate_trend(tCurrent, tPrevious)
    /\ tCalled' = TRUE
    /\ UNCHANGED <<weights, otherVars, scoreVars, tCurrent, tPrevious, reportVars, pipeVars>>

NextTrend == CalculateTrend

SpecTrend == InitTrend /\ [][NextTrend]_vars

----------------------------------------------------------------------------
(* generate_unified_report called on any request and any fetch outcome *)

MaxRows == 2

GscRows ==
    {[clicks |-> 120, impressions |-> 2000, position |-> 1000],
     [clicks |-> 30, impressions |-> 1000, position |-> 250],
     [clicks |-> 0, impressions |-> 0, position |-> 4000],
     [impressions |-> 500]}

SeqsUpTo(S, n) == UNION {[1 .. k -> S] : k \in 0 .. n}

GscOutcomes == {FetchFailed} \cup {Fetched(rows) : rows \in SeqsUpTo(GscRows, MaxRows)}

Ga4Row(sessions, bounce, conversions) ==
    [metricValues |-> <<sessions, sessions, 2 * sessions, 615, bounce, conversions>>]

Ga4Payloads ==
    {EmptyDict,
     [rows |-> <<>>],
     [rows |-> <<Ga4Row(400, 420, 12), Ga4Row(100, 650, 0)>>],
     [rows |-> <<Ga4Row(0, 0, 0)>>],
     [rows |-> <<[metricValues |-> <<40, 35>>]>>],
     [rows |-> <<Ga4Row(400, 420, 12)>>, totals |-> <<Ga4Row(500, 700, 5)>>],
     [rows |-> <<Ga4Row(400, 420, 12)>>, totals |-> <<[metricValues |-> <<500>>]>>]}

Ga4Outcomes == {FetchFailed} \cup {Fetched(p) : p \in Ga4Payloads}

DimOutcomes ==
    {FetchFailed,
     Fetched(<<<<"mobile", "google", 300>>, <<"desktop", "google", 150>>,
               <<"mobile", "facebook", 50>>>>)}

MetaItem(name, period, vals) ==
    [name |-> name, period |-> period,
     values |-> [i \in 1 .. Len(vals) |-> [value |-> vals[i]]]]

MetaPayloads ==
    {EmptyDict,
     [data |-> <<>>, fan_count |-> 310],
     [data |-> <<MetaItem("page_impressions_unique", "day", <<900, 1130>>)>>,
      fan_count |-> 310],
     [data |-> <<MetaItem("page_impressions_unique", "day", <<7>>),
                 MetaItem("page_views", "lifetime", <<64, 70>>)>>],
     [data |-> <<MetaItem("page_views", "lifetime", <<>>)>>, fan_count |-> 0],
     [data |-> <<[period |-> "day"]>>, fan_count |-> 310],
     [data |-> <<MetaItem("page_impressions_unique", "day", <<400, 600>>)>>]}

MetaOutcomes == {FetchFailed} \cup {Fetched(p) : p \in MetaPayloads}

InitReport ==
    /\ weights = InitialWeights
    /\ InitIdleScores
    /\ InitIdleTrend
    /\ rRequested \in SUBSET AllChannels
    /\ rGsc \in GscOutcomes
    /\ rGa4 \in Ga4Outcomes
    /\ rDim \in DimOutcomes
    /\ rMeta \in MetaOutcomes
    /\ rCalled = FALSE
    /\ rResult = EmptyDict
    /\ InitPipe
    /\ InitIdleOther

GenerateUnifiedReport ==
    /\ ~rCalled
    /\ rResult' = generate_unified_report(rRequested, rGsc, rGa4, rDim, rMeta, weights)
    /\ rCalled' = TRUE
    /\ UNCHANGED <<weights, otherVars, scoreVars, trendVars, rRequested, rGsc, rGa4, rDim,
                   rMeta, pipeVars>>

NextReport == GenerateUnifiedReport

SpecReport == InitReport /\ [][NextReport]_vars

----------------------------------------------------------------------------
(* The history file of one site: the JSON text json.dump writes and        *)
(* json.load reads.  A JSON number is its sign and decimal digits, a JSON   *)
(* object is a mapping from member names to JSON values, a JSON array is a  *)
(* sequence; a datetime is stored as the string isoformat() gives.          *)

RECURSIVE Digits(_)
Digits(n) == IF n < 10 THEN <<n>> ELSE Append(Digits(n \div 10), n % 10)

RECURSIVE FromDigits(_)
FromDigits(ds) ==
    IF ds = <<>> THEN 0
    ELSE 10 * FromDigits(SubSeq(ds, 1, Len(ds) - 1)) + ds[Len(ds)]

\* the number is written with one digit less than it has
json_dump_number_Rounded(n) == [neg |-> n < 0, digits |-> Digits(10 * (Abs(n) \div 10))]

\* json.dump of a number
json_dump_number(n) == [neg |-> n < 0, digits |-> Digits(Abs(n))]

\* json.load of a number
json_load_number(t) == IF t.neg THEN -FromDigits(t.digits) ELSE FromDigits(t.digits)

\* a dict of numbers
json_dump_numbers(d) == [k \in DOMAIN d |-> json_dump_number(d[k])]

json_load_numbers(t) == [k \in DOMAIN t |-> json_load_number(t[k])]

\* a list of dicts of numbers
json_dump_rows(s) == [i \in 1 .. Len(s) |-> json_dump_numbers(s[i])]

json_load_rows(t) == [i \in 1 .. Len(t) |-> json_load_numbers(t[i])]

\* the members of a channel record that are not numbers
RowsKeys == {"top_queries", "recent_posts", "campaigns"}

NumbersKeys == {"device_breakdown", "source_breakdown", "metrics"}

json_dump_ads(d) ==
    [k \in DOMAIN d |->
        IF k \in RowsKeys THEN json_dump_rows(d[k])
        ELSE IF k \in NumbersKeys THEN json_dump_numbers(d[k])
        ELSE json_dump_number(d[k])]

json_load_ads(t) ==
    [k \in DOMAIN t |->
        IF k \in RowsKeys THEN json_load_rows(t[k])
        ELSE IF k \in NumbersKeys THEN json_load_numbers(t[k])
        ELSE json_load_number(t[k])]

\* one entry of report["channels"]
json_dump_channel(d) ==
    [k \in DOMAIN d |->
        IF k \in RowsKeys THEN json_dump_rows(d[k])
        ELSE IF k \in NumbersKeys THEN json_dump_numbers(d[k])
        ELSE IF k = "audience"
        THEN [g \in DOMAIN d[k] |-> json_dump_numbers(d[k][g])]
        ELSE IF k = "ads_insights" THEN json_dump_ads(d[k])
        ELSE json_dump_number(d[k])]

json_load_channel(t) ==
    [k \in DOMAIN t |->
        IF k \in RowsKeys THEN json_load_rows(t[k])
        ELSE IF k \in NumbersKeys THEN json_load_numbers(t[k])
        ELSE IF k = "audience"
        THEN [g \in DOMAIN t[k] |-> json_load_numbers(t[k][g])]
        ELSE IF k = "ads_insights" THEN json_load_ads(t[k])
        ELSE json_load_number(t[k])]

\* a report: overall_score, scores, channels, each of which may be missing
json_dump_report(rep) ==
    [k \in DOMAIN rep |->
        IF k = "channels"
        THEN [ch \in DOMAIN rep[k] |-> json_dump_channel(rep[k][ch])]
        ELSE IF k = "scores" THEN json_dump_numbers(rep[k])
        ELSE json_dump_number(rep[k])]

json_load_report(t) ==
    [k \in DOMAIN t |->
        IF k = "channels"
        THEN [ch \in DOMAIN t[k] |-> json_load_channel(t[k][ch])]
        ELSE IF k = "scores" THEN json_load_numbers(t[k])
        ELSE json_load_number(t[k])]

\* datetime.isoformat() and datetime.fromisoformat(), of a time in days
isoformat(d) == json_dump_number(d)

fromisoformat(s) == json_load_number(s)

\* json.dump(history, f): entries {"date": <string>, "report": <report>}
json_dump(hist) ==
    [i \in 1 .. Len(hist) |->
        [date |-> hist[i].date, report |-> json_dump_report(hist[i].report)]]

\* json.load(f)
json_load(text) ==
    [i \in 1 .. Len(text) |->
        [date |-> text[i].date, report |-> json_load_report(text[i].report)]]

RetentionDays == 90

\* DataAnalyst.load_historical_data: stored is the text of the file, readable
\* says whether open and json.load succeed; any exception gives []
load_historical_data(exists, readable, stored) ==
    IF exists /\ readable THEN json_load(stored) ELSE <<>>

\* DataAnalyst.save_historical_data: the text written to the file
save_historical_data(exists, readable, stored, rep, today) ==
    LET previous == load_historical_data(exists, readable, stored)
        appended == Append(previous, [date |-> isoformat(today), report |-> rep])
        cutoff == today - RetentionDays
        Recent(h) == fromisoformat(h.date) > cutoff
    IN  json_dump(SelectSeq(appended, Recent))

\* lines 133-138 of save_historical_data, on the list it has loaded: the new
\* snapshot appended, the entries older than 90 days dropped
AppendAndPrune(previous, rep, today) ==
    LET appended == Append(previous, [date |-> isoformat(today), report |-> rep])
        cutoff == today - RetentionDays
        Recent(h) == fromisoformat(h.date) > cutoff
    IN  SelectSeq(appended, Recent)

----------------------------------------------------------------------------
(* DataAnalyst.analyze_trends *)

Merge(a, b) ==
    [k \in DOMAIN a \cup DOMAIN b |-> IF k \in DOMAIN b THEN b[k] ELSE a[k]]

Channel(rep, ch) == Get(Get(rep, "channels", EmptyDict), ch, EmptyDict)

\* the search trend computed whenever the current snapshot has a search record
GscTrends_CurrentOnly(current, previous) ==
    LET current_gsc == Channel(current, "gsc")
        previous_gsc == Channel(previous, "gsc")
    IN  IF NonEmpty(current_gsc)
        THEN [gsc |->
                Merge(_calculate_trend(Get(current_gsc, "total_clicks", 0),
                                       Get(previous_gsc, "total_clicks", 0)),
                      [position_change |->
                          Get(previous_gsc, "average_position", 0)
                            - Get(current_gsc, "average_position", 0)])]
        ELSE EmptyDict

GscTrends(current, previous) ==
    LET current_gsc == Channel(current, "gsc")
        previous_gsc == Channel(previous, "gsc")
    IN  IF NonEmpty(current_gsc) /\ NonEmpty(previous_gsc)
        THEN [gsc |->
                Merge(_calculate_trend(Get(current_gsc, "total_clicks", 0),
                                       Get(previous_gsc, "total_clicks", 0)),
                      [position_change |->
                          Get(previous_gsc, "average_position", 0)
                            - Get(current_gsc, "average_position", 0)])]
        ELSE EmptyDict

\* bounce_rate_change as current - previous
Ga4Trends_CurrentMinusPrevious(current, previous) ==
    LET current_ga4 == Channel(current, "ga4")
        previous_ga4 == Channel(previous, "ga4")
    IN  IF NonEmpty(current_ga4) /\ NonEmpty(previous_ga4)
        THEN [ga4 |->
                [sessions_change |->
                    _calculate_trend(Get(current_ga4, "total_sessions", 0),
                                     Get(previous_ga4, "total_sessions", 0)),
                 bounce_rate_change |->
                    Get(current_ga4, "bounce_rate", 0)
                      - Get(previous_ga4, "bounce_rate", 0),
                 conversions_change |->
                    _calculate_trend(Get(current_ga4, "conversions", 0),
                                     Get(previous_ga4, "conversions", 0))]]
        ELSE EmptyDict

Ga4Trends(current, previous) ==
    LET current_ga4 == Channel(current, "ga4")
        previous_ga4 == Channel(previous, "ga4")
    IN  IF NonEmpty(current_ga4) /\ NonEmpty(previous_ga4)
        THEN [ga4 |->
                [sessions_change |->
                    _calculate_trend(Get(current_ga4, "total_sessions", 0),
                                     Get(previous_ga4, "total_sessions", 0)),
                 bounce_rate_change |->
                    Get(previous_ga4, "bounce_rate", 0)
                      - Get(current_ga4, "bounce_rate", 0),
                 conversions_change |->
                    _calculate_trend(Get(current_ga4, "conversions", 0),
                                     Get(previous_ga4, "conversions", 0))]]
        ELSE EmptyDict

MetaTrends(current, previous) ==
    LET current_meta == Channel(current, "meta")
        previous_meta == Channel(previous, "meta")
    IN  IF NonEmpty(current_meta) /\ NonEmpty(previous_meta)
        THEN [meta |->
                [impressions_change |->
                    _calculate_trend(Get(current_meta, "total_impressions", 0),
                                     Get(previous_meta, "total_impressions", 0)),
                 engagement_change |->
                    _calculate_trend(Get(current_meta, "engagement_rate", 0),
                                     Get(previous_meta, "engagement_rate", 0))]]
        ELSE EmptyDict

\* a missing overall_score read as the neutral 50
OverallTrend_NeutralDefault(current, previous) ==
    LET current_score == Get(current, "overall_score", 50 * Pt)
        previous_score == Get(previous, "overall_score", 50 * Pt)
    IN  [overall |->
            [score_change |-> current_score - previous_score,
             direction    |-> IF current_score > previous_score THEN "up"
                              ELSE IF current_score < previous_score THEN "down"
                              ELSE "stable"]]

OverallTrend(current, previous) ==
    LET current_score == Get(current, "overall_score", 0)
        previous_score == Get(previous, "overall_score", 0)
    IN  [overall |->
            [score_change |-> current_score - previous_score,
             direction    |-> IF current_score > previous_score THEN "up"
                              ELSE IF current_score < previous_score THEN "down"
                              ELSE "stable"]]

\* lines 157-220: the trends of two reports
ComputeTrends(current, previous) ==
    Merge(Merge(Merge(GscTrends(current, previous), Ga4Trends(current, previous)),
                MetaTrends(current, previous)),
          OverallTrend(current, previous))

InsufficientData ==
    [status  |-> "insufficient_data",
     message |-> "Need at least 2 reports for trend analysis"]

\* no length test: a short history is read as reports without keys
analyze_trends_NoGuard(hist) ==
    LET n == Len(hist)
    IN  ComputeTrends(IF n >= 1 THEN hist[n].report ELSE EmptyDict,
                      IF n >= 2 THEN hist[n - 1].report ELSE EmptyDict)

\* current and previous exchanged
analyze_trends_Swapped(hist) ==
    IF Len(hist) < 2 THEN InsufficientData
    ELSE ComputeTrends(hist[Len(hist) - 1].report, hist[Len(hist)].report)

\* the first snapshot of the history taken as the previous one
analyze_trends_FirstAsPrevious(hist) ==
    IF Len(hist) < 2 THEN InsufficientData
    ELSE ComputeTrends(hist[Len(hist)].report, hist[1].report)

\* hist is the list load_historical_data returns
analyze_trends(hist) ==
    IF Len(hist) < 2 THEN InsufficientData
    ELSE ComputeTrends(hist[Len(hist)].report, hist[Len(hist) - 1].report)

----------------------------------------------------------------------------
(* GET /api/trends/{site} *)

HttpError(code) == [status |-> code, body |-> EmptyDict]

get_trends(exists, stored) ==
    IF ~exists THEN HttpError(404)
    ELSE IF Len(stored) < 2
    THEN [status |-> 200,
          body |-> [success |-> FALSE,
                    message |-> "Need at least 2 reports for trend analysis",
                    data    |-> None]]
    ELSE [status |-> 200,
          body |-> [success |-> TRUE,
                    data    |-> Some(analyze_trends(
                                    load_historical_data(exists, TRUE, stored))),
                    history_count |-> Len(stored)]]

----------------------------------------------------------------------------
(* DataAnalyst.generate_growth_recommendations.  A title is written without *)
(* its emoji; a description is its text followed by the numbers formatted   *)
(* into it.                                                                  *)

Rec(priority, category, title, description, action, impact, timeline) ==
    [priority |-> priority, category |-> category, title |-> title,
     description |-> description, action |-> action, impact |-> impact,
     timeline |-> timeline]

_get_default_recommendations ==
    <<Rec("High", "Setup", "Complete GA4 Setup",
          <<"Set up conversion events in GA4 to track business goals.">>,
          "Configure at least 3 conversion events (signups, purchases, contact forms).",
          "High", "This week"),
      Rec("High", "SEO", "Keyword Research",
          <<"Identify your top 10 target keywords with good search volume.">>,
          "Use GSC data to find keywords where you rank 5-15 - optimize these pages.",
          "High", "This week"),
      Rec("Medium", "Social", "Content Calendar",
          <<"Create a consistent posting schedule.">>,
          "Post 5x per week: 2 educational, 1 behind-scenes, 1 customer story, 1 promotional.",
          "Medium", "Ongoing")>>

\* the two search rules tested one after the other, not as if / elif
GscTrendRecs_BothItems(trendSet) ==
    LET gsc_trend == Get(trendSet, "gsc", EmptyDict)
    IN  IF ~NonEmpty(gsc_trend) THEN <<>>
        ELSE
        (IF Get(gsc_trend, "direction", "") = "down"
         THEN <<Rec("Critical", "SEO", "Search Traffic Declining",
                    <<"Clicks are down % from last period. Immediate action needed.",
                      Abs(Get(gsc_trend, "change_pct", 0))>>,
                    "Review recent algorithm changes, check for technical issues, and audit backlink profile.",
                    "High", "This week")>>
         ELSE <<>>)
        \o
        (IF Get(gsc_trend, "position_change", 0) > 0
         THEN <<Rec("Growth", "SEO", "Rankings Improving",
                    <<"Average position improved by positions. Capitalize on this momentum!",
                      Get(gsc_trend, "position_change", 0)>>,
                    "Create more content around top-performing keywords and build backlinks.",
                    "High", "Next 2 weeks")>>
         ELSE <<>>)

\* lines 259-284: trends.get("gsc")
GscTrendRecs(trendSet) ==
    LET gsc_trend == Get(trendSet, "gsc", EmptyDict)
    IN  IF ~NonEmpty(gsc_trend) THEN <<>>
        ELSE IF Get(gsc_trend, "direction", "") = "down"
        THEN <<Rec("Critical", "SEO", "Search Traffic Declining",
                   <<"Clicks are down % from last period. Immediate action needed.",
                     Abs(Get(gsc_trend, "change_pct", 0))>>,
                   "Review recent algorithm changes, check for technical issues, and audit backlink profile.",
                   "High", "This week")>>
        ELSE IF Get(gsc_trend, "position_change", 0) > 0
        THEN <<Rec("Growth", "SEO", "Rankings Improving",
                   <<"Average position improved by positions. Capitalize on this momentum!",
                     Get(gsc_trend, "position_change", 0)>>,
                   "Create more content around top-performing keywords and build backlinks.",
                   "High", "Next 2 weeks")>>
        ELSE <<>>

\* lines 286-311: trends.get("ga4"); bounce_rate_change < -0.05
Ga4TrendRecs(trendSet) ==
    LET ga4_trend == Get(trendSet, "ga4", EmptyDict)
    IN  IF ~NonEmpty(ga4_trend) THEN <<>>
        ELSE
        (IF Get(ga4_trend, "bounce_rate_change", 0) < -50
         THEN <<Rec("Critical", "UX", "Bounce Rate Increasing",
                    <<"Bounce rate increased. Users are leaving without engaging.">>,
                    "Improve page load speed, enhance content quality, add clear CTAs.",
                    "High", "This week")>>
         ELSE <<>>)
        \o
        (IF Get(Get(ga4_trend, "conversions_change", EmptyDict), "direction", "") = "up"
         THEN <<Rec("Growth", "Conversion", "Conversions Growing",
                    <<"Your conversion optimization is working! Scale what's working.">>,
                    "Double down on high-converting pages and traffic sources.",
                    "High", "Immediately")>>
         ELSE <<>>)

\* lines 313-327: trends.get("meta")
MetaTrendRecs(trendSet) ==
    LET meta_trend == Get(trendSet, "meta", EmptyDict)
    IN  IF ~NonEmpty(meta_trend) THEN <<>>
        ELSE IF Get(Get(meta_trend, "impressions_change", EmptyDict), "direction", "") = "up"
        THEN <<Rec("Growth", "Social", "Social Reach Growing",
                   <<"Impressions up %! Leverage this reach.",
                     Get(meta_trend["impressions_change"], "change_pct", 0)>>,
                   "Increase posting frequency and test paid promotion to scale.",
                   "Medium", "This week")>>
        ELSE <<>>

\* lines 329-367: bounce_rate > 0.6, average_position > 5, engagement_rate < 0.03
ThresholdRecs(current) ==
    LET gsc == Channel(current, "gsc")
        ga4 == Channel(current, "ga4")
        meta == Channel(current, "meta")
    IN  (IF Get(ga4, "bounce_rate", 0) > 600
         THEN <<Rec("High", "UX", "High Bounce Rate",
                    <<"bounce rate is hurting conversions.", Get(ga4, "bounce_rate", 0)>>,
                    "Audit top landing pages, improve mobile experience, add engaging content.",
                    "High", "This week")>>
         ELSE <<>>)
        \o
        (IF Get(gsc, "average_position", 0) > 500
         THEN <<Rec("High", "SEO", "Position 5-10 Opportunity",
                    <<"Average ranking at. Small improvements = big traffic gains.",
                      Get(gsc, "average_position", 0)>>,
                    "Optimize content for top 10 keywords, build 2-3 quality backlinks.",
                    "High", "2-4 weeks")>>
         ELSE <<>>)
        \o
        (IF Get(meta, "engagement_rate", 0) < 300
         THEN <<Rec("Medium", "Social", "Low Engagement",
                    <<"Only engagement. Content may not be resonating.",
                      Get(meta, "engagement_rate", 0)>>,
                    "Test video content, ask questions, share customer stories.",
                    "Medium", "This week")>>
         ELSE <<>>)

\* lines 369-391
GrowthOpportunities ==
    <<Rec("Growth", "Content", "Content Gap Analysis",
          <<"Identify content opportunities your competitors rank for but you don't.">>,
          "Use GSC to find keywords with impressions but no clicks - these are opportunities.",
          "Medium", "This month"),
      Rec("Growth", "Traffic", "Referral Traffic Strategy",
          <<"Build strategic partnerships for referral traffic.">>,
          "Guest post, collaborations, directory submissions.",
          "Medium", "This month")>>

\* recommendations[:n]
FirstN(s, n) == SubSeq(s, 1, Min(n, Len(s)))

\* no cap on the list
generate_growth_recommendations_NoCap(hist, trendSet) ==
    IF hist = <<>> THEN _get_default_recommendations
    ELSE GscTrendRecs(trendSet) \o Ga4TrendRecs(trendSet) \o MetaTrendRecs(trendSet)
           \o ThresholdRecs(hist[Len(hist)].report) \o GrowthOpportunities

\* the growth opportunities and the threshold rules ahead of the trend rules
generate_growth_recommendations_Reordered(hist, trendSet) ==
    IF hist = <<>> THEN _get_default_recommendations
    ELSE FirstN(GrowthOpportunities \o ThresholdRecs(hist[Len(hist)].report)
                  \o GscTrendRecs(trendSet) \o Ga4TrendRecs(trendSet)
                  \o MetaTrendRecs(trendSet), 8)

\* the default set chosen by the insufficient_data sentinel, not by the history
generate_growth_recommendations_BySentinel(hist, trendSet) ==
    IF hist = <<>> \/ "status" \in DOMAIN trendSet THEN _get_default_recommendations
    ELSE FirstN(GscTrendRecs(trendSet) \o Ga4TrendRecs(trendSet) \o MetaTrendRecs(trendSet)
                  \o ThresholdRecs(hist[Len(hist)].report) \o GrowthOpportunities, 8)

\* hist is the list load_historical_data returns
generate_growth_recommendations(hist, trendSet) ==
    IF hist = <<>> THEN _get_default_recommendations
    ELSE LET current == hist[Len(hist)].report
             recommendations ==
                 GscTrendRecs(trendSet) \o Ga4TrendRecs(trendSet) \o MetaTrendRecs(trendSet)
                   \o ThresholdRecs(current) \o GrowthOpportunities
         IN  FirstN(recommendations, 8)

----------------------------------------------------------------------------
(* DataAnalyst._generate_recommendations *)

ChannelRec(priority, channel, title, description, impact, effort) ==
    [priority |-> priority, channel |-> channel, title |-> title,
     description |-> description, impact |-> impact, effort |-> effort]

\* sorted(d.items(), key=lambda x: x[1], reverse=True)[:n], the keys
RECURSIVE TopKeys(_, _)
TopKeys(d, n) ==
    IF n = 0 \/ DOMAIN d = {} THEN <<>>
    ELSE LET k == CHOOSE x \in DOMAIN d : \A y \in DOMAIN d : d[y] <= d[x]
         IN  <<k>> \o TopKeys(Restrict(d, DOMAIN d \ {k}), n - 1)

\* the argument scores is not read
_generate_recommendations(gsc, ga4, meta) ==
    LET top_sources == TopKeys(Get(ga4, "source_breakdown", EmptyDict), 3)
        engagement == Get(meta, "engagement_rate", 0)
        pos_4_10 == Get(gsc, "positions_4_10", 0)
        recommendations ==
            (IF NonEmpty(ga4) /\ Get(ga4, "bounce_rate", 0) > 500
             THEN <<ChannelRec("High", "GA4", "Reduce Bounce Rate",
                               <<"Bounce rate is. Improve content engagement.",
                                 Get(ga4, "bounce_rate", 0)>>, "Medium", "Medium")>>
             ELSE <<>>)
            \o
            (IF NonEmpty(ga4) /\ top_sources # <<>>
             THEN <<ChannelRec("Medium", "GA4", "Top Traffic Sources",
                               <<"Main sources:", top_sources>>, "Info", "Low")>>
             ELSE <<>>)
            \o
            (IF NonEmpty(meta) /\ engagement < 500
             THEN <<ChannelRec("High", "Meta", "Boost Engagement",
                               <<"Engagement rate is below average. Post more engaging content.",
                                 engagement>>, "High", "Medium")>>
             ELSE <<>>)
            \o
            (IF NonEmpty(gsc) /\ pos_4_10 > 5
             THEN <<ChannelRec("High", "GSC", "Improve Page 1 Rankings",
                               <<"queries ranking 4-10. Optimize content for top 3.",
                                 pos_4_10>>, "High", "Medium")>>
             ELSE <<>>)
    IN  FirstN(recommendations, 8)

----------------------------------------------------------------------------
(* The recommendation generators called on any history file, any trends    *)
(* argument and any channel records                                         *)

UpTrend == [current |-> 150, previous |-> 100, change |-> 50, change_pct |-> 500,
            direction |-> "up"]

DownTrend == [current |-> 75, previous |-> 100, change |-> -25, change_pct |-> -250,
              direction |-> "down"]

NewTrend == [current |-> 75, previous |-> 0, change_pct |-> 0, direction |-> "new"]

GscTrendArgs ==
    {EmptyDict,
     [gsc |-> Merge(DownTrend, [position_change |-> 600])],
     [gsc |-> Merge(UpTrend, [position_change |-> 600])],
     [gsc |-> Merge(NewTrend, [position_change |-> -100])]}

Ga4TrendArgs ==
    {EmptyDict,
     [ga4 |-> [sessions_change |-> UpTrend, bounce_rate_change |-> -80,
               conversions_change |-> UpTrend]],
     [ga4 |-> [sessions_change |-> DownTrend, bounce_rate_change |-> -80,
               conversions_change |-> DownTrend]],
     [ga4 |-> [sessions_change |-> UpTrend, bounce_rate_change |-> 20,
               conversions_change |-> UpTrend]],
     [ga4 |-> [sessions_change |-> NewTrend, bounce_rate_change |-> -50,
               conversions_change |-> NewTrend]]}

MetaTrendArgs ==
    {EmptyDict,
     [meta |-> [impressions_change |-> UpTrend, engagement_change |-> DownTrend]],
     [meta |-> [impressions_change |-> DownTrend, engagement_change |-> UpTrend]]}

TrendsArgs ==
    {InsufficientData} \cup
    {Merge(Merge(Merge(g, a), m),
           [overall |-> [score_change |-> 0, direction |-> "stable"]]) :
        g \in GscTrendArgs, a \in Ga4TrendArgs, m \in MetaTrendArgs}

RecGscRecords == {EmptyDict, [average_position |-> 400], [average_position |-> 1000]}

RecGa4Records == {EmptyDict, [bounce_rate |-> 600], [bounce_rate |-> 650]}

RecMetaRecords == {EmptyDict, [engagement_rate |-> 200], [engagement_rate |-> 500]}

RecReports ==
    {[overall_score |-> 60 * Pt, channels |-> [gsc |-> g, ga4 |-> a, meta |-> m]] :
        g \in RecGscRecords, a \in RecGa4Records, m \in RecMetaRecords}

\* the history files: no file, a file holding [], a file holding one snapshot
RecFiles ==
    {[exists |-> FALSE, text |-> <<>>], [exists |-> TRUE, text |-> <<>>]} \cup
    {[exists |-> TRUE,
      text |-> json_dump(<<[date |-> isoformat(0), report |-> r]>>)] : r \in RecReports}

ChannelRecGsc == {EmptyDict, [positions_4_10 |-> 6, total_clicks |-> 120]}

ChannelRecGa4 ==
    {EmptyDict,
     [bounce_rate |-> 450, source_breakdown |-> EmptyDict],
     [bounce_rate |-> 650,
      source_breakdown |-> [google |-> 300, facebook |-> 50, bing |-> 20, direct |-> 10]]}

ChannelRecMeta == {EmptyDict, [engagement_rate |-> 100]}

InitRecs ==
    /\ weights = InitialWeights
    /\ InitIdleScores
    /\ InitIdleTrend
    /\ InitIdleReport
    /\ \E f \in RecFiles : fileExists = f.exists /\ history = f.text
    /\ now = 0
    /\ pc = "idle"
    /\ runKind = "none"
    /\ report = EmptyDict
    /\ trends = EmptyDict
    /\ resp = NoResponse
    /\ gTrends \in TrendsArgs
    /\ gCalled = FALSE
    /\ gResult = <<>>
    /\ nGsc \in ChannelRecGsc
    /\ nGa4 \in ChannelRecGa4
    /\ nMeta \in ChannelRecMeta
    /\ nCalled = FALSE
    /\ nResult = <<>>
    /\ InitIdleCall
    /\ InitIdleStore
    /\ InitIdleSaves

GenerateGrowthRecommendations ==
    /\ ~gCalled
    /\ gResult' = generate_growth_recommendations(
                      load_historical_data(fileExists, TRUE, history), gTrends)
    /\ gCalled' = TRUE
    /\ UNCHANGED <<weights, scoreVars, trendVars, reportVars, pipeVars, gTrends,
                   nGsc, nGa4, nMeta, nCalled, nResult, callVars, storeVars, saveVars>>

GenerateRecommendations ==
    /\ ~nCalled
    /\ nResult' = _generate_recommendations(nGsc, nGa4, nMeta)
    /\ nCalled' = TRUE
    /\ UNCHANGED <<weights, scoreVars, trendVars, reportVars, pipeVars, gTrends,
                   gCalled, gResult, nGsc, nGa4, nMeta, callVars, storeVars, saveVars>>

NextRecs == GenerateGrowthRecommendations \/ GenerateRecommendations

SpecRecs == InitRecs /\ [][NextRecs]_vars

----------------------------------------------------------------------------
(* The program: analysis runs, one at a time, on one site.  A run of main  *)
(* or run_scheduled_analysis ("cli") reports, saves, then analyzes trends; *)
(* a run of POST /api/analyze ("api") reports, analyzes trends, then saves. *)
(* The history file is readable during the runs; SpecStore has the reads   *)
(* that fail.  The Meta fetch succeeds during the runs; SpecReport has the *)
(* fetches that fail.                                                       *)

MaxHistory == 2

MaxTicks == 2

TickDays == 45

RunRequests == {AllChannels, {"gsc", "meta"}}

RunGscOutcomes ==
    {FetchFailed,
     Fetched(<<[clicks |-> 120, impressions |-> 2000, position |-> 1000]>>),
     Fetched(<<[clicks |-> 150, impressions |-> 1000, position |-> 300],
               [clicks |-> 30, impressions |-> 1000, position |-> 500]>>)}

RunGa4Outcomes ==
    {FetchFailed, Fetched([rows |-> <<Ga4Row(400, 420, 12), Ga4Row(100, 650, 0)>>])}

RunDimOutcomes == {FetchFailed}

RunMetaOutcomes ==
    {Fetched([data |-> <<MetaItem("page_impressions_unique", "day", <<900, 1130>>)>>,
              fan_count |-> 310])}

Init ==
    /\ weights = InitialWeights
    /\ InitIdleScores
    /\ InitIdleTrend
    /\ InitIdleReport
    /\ InitPipe
    /\ InitIdleOther

\* a run starts: generate_unified_report
StartRun(kind, requested, gscOut, ga4Out, dim, metaOut) ==
    /\ pc = "idle"
    /\ Len(history) < MaxHistory
    /\ runKind' = kind
    /\ report' = generate_unified_report(requested, gscOut, ga4Out, dim, metaOut, weights)
    /\ trends' = EmptyDict
    /\ pc' = "reported"
    /\ resp' = NoResponse
    /\ UNCHANGED <<weights, otherVars, scoreVars, trendVars, reportVars, fileVars, now>>

\* analyst.save_historical_data(site_url, report)
SaveHistoricalData ==
    /\ \/ runKind = "cli" /\ pc = "reported"
       \/ runKind = "api" /\ pc = "trended"
    /\ history' = save_historical_data(fileExists, TRUE, history, report, now)
    /\ fileExists' = TRUE
    /\ pc' = "saved"
    /\ resp' = NoResponse
    /\ UNCHANGED <<weights, otherVars, scoreVars, trendVars, reportVars, now, runKind, report,
                   trends>>

\* trends = analyst.analyze_trends(site_url)
AnalyzeTrends ==
    /\ \/ runKind = "cli" /\ pc = "saved"
       \/ runKind = "api" /\ pc = "reported"
    /\ trends' = analyze_trends(load_historical_data(fileExists, TRUE, history))
    /\ pc' = "trended"
    /\ resp' = NoResponse
    /\ UNCHANGED <<weights, otherVars, scoreVars, trendVars, reportVars, fileVars, now, runKind,
                   report>>

\* the run returns
FinishRun ==
    /\ \/ runKind = "cli" /\ pc = "trended"
       \/ runKind = "api" /\ pc = "saved"
    /\ pc' = "idle"
    /\ runKind' = "none"
    /\ report' = EmptyDict
    /\ trends' = EmptyDict
    /\ resp' = NoResponse
    /\ UNCHANGED <<weights, otherVars, scoreVars, trendVars, reportVars, fileVars, now>>

\* GET /api/trends/{site}; resp holds the response until the next step
GetTrends ==
    /\ resp' = get_trends(fileExists, history)
    /\ UNCHANGED <<weights, otherVars, scoreVars, trendVars, reportVars, fileVars, now, runVars>>

\* time passes
Tick ==
    /\ now < MaxTicks * TickDays
    /\ now' = now + TickDays
    /\ resp' = NoResponse
    /\ UNCHANGED <<weights, otherVars, scoreVars, trendVars, reportVars, fileVars, runVars>>

Next ==
    \/ \E kind \in {"cli", "api"}, requested \in RunRequests,
          gscOut \in RunGscOutcomes, ga4Out \in RunGa4Outcomes,
          dim \in RunDimOutcomes, metaOut \in RunMetaOutcomes :
            StartRun(kind, requested, gscOut, ga4Out, dim, metaOut)
    \/ SaveHistoricalData
    \/ AnalyzeTrends
    \/ FinishRun
    \/ GetTrends
    \/ Tick

Spec == Init /\ [][Next]_vars

----------------------------------------------------------------------------
(* The history store: any sequence of saves and loads on one site's file,  *)
(* with reads that succeed or fail (open or json.load raising).            *)

MaxSaves == 3

StoreReports ==
    {generate_unified_report(AllChannels, g,
         Fetched([rows |-> <<Ga4Row(400, 420, 12), Ga4Row(100, 650, 0)>>]),
         FetchFailed,
         Fetched([data |-> <<MetaItem("page_impressions_unique", "day", <<900, 1130>>)>>,
                  fan_count |-> 310]),
         InitialWeights) : g \in RunGscOutcomes}

InitStore ==
    /\ weights = InitialWeights
    /\ InitIdleScores
    /\ InitIdleTrend
    /\ InitIdleReport
    /\ InitPipe
    /\ InitIdleOther

\* save_historical_data(site_url, rep)
Save(rep, readable) ==
    /\ Len(saved) < MaxSaves
    /\ history' = save_historical_data(fileExists, readable, history, rep, now)
    /\ fileExists' = TRUE
    /\ saved' = Append(saved, [date |-> now, report |-> rep])
    /\ loaded' = <<>>
    /\ loadOk' = FALSE
    /\ UNCHANGED <<weights, scoreVars, trendVars, reportVars, now, runVars, resp,
                   recVars, callVars, saveVars>>

\* load_historical_data(site_url)
Load(readable) ==
    /\ loaded' = load_historical_data(fileExists, readable, history)
    /\ loadOk' = (readable \/ ~fileExists)
    /\ UNCHANGED <<weights, scoreVars, trendVars, reportVars, pipeVars, recVars,
                   callVars, saved, saveVars>>

NextStore ==
    \/ \E rep \in StoreReports, readable \in BOOLEAN : Save(rep, readable)
    \/ \E readable \in BOOLEAN : Load(readable)
    \/ Tick

SpecStore == InitStore /\ [][NextStore]_vars

----------------------------------------------------------------------------
(* analyze_trends called on any history file, the snapshots of which may   *)
(* lack keys, and generate_growth_recommendations called on its result, as *)
(* run_scheduled_analysis and analyze_site call them                       *)

MaxSnapshots == 3

CallReports ==
    {generate_unified_report(AllChannels,
         Fetched(<<[clicks |-> 120, impressions |-> 2000, position |-> 1000]>>),
         Fetched([rows |-> <<Ga4Row(400, 420, 12), Ga4Row(100, 650, 0)>>]),
         FetchFailed,
         Fetched([data |-> <<MetaItem("page_impressions_unique", "day", <<900, 1130>>)>>,
                  fan_count |-> 310]),
         InitialWeights),
     generate_unified_report(AllChannels,
         Fetched(<<[clicks |-> 150, impressions |-> 1000, position |-> 300],
                   [clicks |-> 30, impressions |-> 1000, position |-> 500]>>),
         Fetched([rows |-> <<Ga4Row(400, 420, 12)>>, totals |-> <<Ga4Row(500, 700, 5)>>]),
         FetchFailed,
         Fetched([data |-> <<MetaItem("page_impressions_unique", "day", <<7>>),
                             MetaItem("page_views", "lifetime", <<64, 70>>)>>]),
         InitialWeights),
     EmptyDict,
     [overall_score |-> 40 * Pt],
     [channels |-> [gsc  |-> [total_queries |-> 3],
                    ga4  |-> [bounce_rate |-> 450],
                    meta |-> [total_fans |-> 310]]],
     [channels |-> [gsc |-> EmptyDict,
                    ga4 |-> [bounce_rate |-> 500, conversions |-> 12]],
      overall_score |-> 40 * Pt]}

CallSnapshots == {[date |-> isoformat(0), report |-> r] : r \in CallReports}

InitCall ==
    /\ weights = InitialWeights
    /\ InitIdleScores
    /\ InitIdleTrend
    /\ InitIdleReport
    /\ fileExists = TRUE
    /\ history \in {json_dump(h) : h \in SeqsUpTo(CallSnapshots, MaxSnapshots)}
    /\ now = 0
    /\ pc = "idle"
    /\ runKind = "none"
    /\ report = EmptyDict
    /\ trends = EmptyDict
    /\ resp = NoResponse
    /\ InitIdleOther

\* analyst.analyze_trends(site_url)
CallAnalyzeTrends ==
    /\ ~aCalled
    /\ aResult' = analyze_trends(load_historical_data(fileExists, TRUE, history))
    /\ aCalled' = TRUE
    /\ UNCHANGED <<weights, scoreVars, trendVars, reportVars, pipeVars, recVars,
                   storeVars, saveVars>>

\* recommendations = analyst.generate_growth_recommendations(site_url, trends)
CallGenerateGrowthRecommendations ==
    /\ aCalled
    /\ ~gCalled
    /\ gTrends' = aResult
    /\ gResult' = generate_growth_recommendations(
                      load_historical_data(fileExists, TRUE, history), aResult)
    /\ gCalled' = TRUE
    /\ UNCHANGED <<weights, scoreVars, trendVars, reportVars, pipeVars, nGsc, nGa4,
                   nMeta, nCalled, nResult, callVars, storeVars, saveVars>>

NextCall == CallAnalyzeTrends \/ CallGenerateGrowthRecommendations

SpecCall == InitCall /\ [][NextCall]_vars

----------------------------------------------------------------------------
(* Runs that save at the same time: the analysis runs of one site (the API *)
(* server, main, run_scheduled_analysis) are separate processes on the     *)
(* same history file, and save_historical_data takes no lock.  Each run is *)
(* inside save_historical_data, one file operation at a time.              *)

InitSaves ==
    /\ weights = InitialWeights
    /\ InitIdleScores
    /\ InitIdleTrend
    /\ InitIdleReport
    /\ InitPipe
    /\ InitIdleOther

\* history = self.load_historical_data(site_url)
SaveLoad(p, rep) ==
    /\ svPc[p] = "idle"
    /\ svReport' = [svReport EXCEPT ![p] = rep]
    /\ svHistory' = [svHistory EXCEPT ![p] = load_historical_data(fileExists, TRUE, history)]
    /\ svPc' = [svPc EXCEPT ![p] = "loaded"]
    /\ saved' = Append(saved, [date |-> now, report |-> rep])
    /\ UNCHANGED <<weights, scoreVars, trendVars, reportVars, pipeVars, recVars,
                   callVars, loaded, loadOk>>

\* history.append(...), the pruning, and open(history_file, "w"), which
\* empties the file: load_historical_data reads an empty file as [], through
\* its except
SaveOpen(p) ==
    /\ svPc[p] = "loaded"
    /\ svHistory' = [svHistory EXCEPT ![p] = AppendAndPrune(svHistory[p], svReport[p], now)]
    /\ history' = <<>>
    /\ fileExists' = TRUE
    /\ svPc' = [svPc EXCEPT ![p] = "opened"]
    /\ UNCHANGED <<weights, scoreVars, trendVars, reportVars, now, runVars, resp,
                   recVars, callVars, storeVars, svReport>>

\* json.dump(history, f, indent=2) and the close of the file
SaveDump(p) ==
    /\ svPc[p] = "opened"
    /\ history' = json_dump(svHistory[p])
    /\ svPc' = [svPc EXCEPT ![p] = "done"]
    /\ UNCHANGED <<weights, scoreVars, trendVars, reportVars, fileExists, now, runVars,
                   resp, recVars, callVars, storeVars, svReport, svHistory>>

NextSaves ==
    \/ \E p \in Runs, rep \in StoreReports : SaveLoad(p, rep)
    \/ \E p \in Runs : SaveOpen(p)
    \/ \E p \in Runs : SaveDump(p)

SpecSaves == InitSaves /\ [][NextSaves]_vars

----------------------------------------------------------------------------
(* Claims about the score calculator, under SpecScores *)

InRange(x) == 0 <= x /\ x <= 100 * Pt

\* C1: every category score returned by calculate_overall_scores lies in
\* [0, 100], for every input.
C1_CategoriesInRange ==
    sCalled => \A c \in ScoreCategories : InRange(sResult[c])

\* C2: overall is within 0.01 of the weighted sum of the five categories, the
\* weights are the fixed non-negative 0.20 / 0.30 / 0.20 / 0.15 / 0.15 summing
\* to 1.0, and overall lies in [0, 100].
C2_OverallWeightedSum ==
    /\ weights = InitialWeights
    /\ \A c \in DOMAIN weights : weights[c] >= 0
    /\ SumOver(DOMAIN weights, weights) = 100
    /\ sCalled =>
          /\ Abs(100 * sResult["overall"]
                   - ( 20 * sResult["search_visibility"]
                     + 30 * sResult["ga4_performance"]
                     + 20 * sResult["meta_performance"]
                     + 15 * sResult["technical_health"]
                     + 15 * sResult["content_performance"])) <= Pt
          /\ InRange(sResult["overall"])

\* C3: an absent (None or empty) channel argument scores exactly 50 in its own
\* category whatever the other arguments are, technical_health and
\* content_performance are always 75, and with all three absent overall is 57.5.
C3_AbsentChannelsNeutral ==
    sCalled =>
        /\ ~Truthy(sGsc) => sResult["search_visibility"] = 50 * Pt
        /\ ~Truthy(sGa4) => sResult["ga4_performance"] = 50 * Pt
        /\ ~Truthy(sMeta) => sResult["meta_performance"] = 50 * Pt
        /\ sResult["technical_health"] = 75 * Pt
        /\ sResult["content_performance"] = 75 * Pt
        /\ (~Truthy(sGsc) /\ ~Truthy(sGa4) /\ ~Truthy(sMeta))
              => sResult["overall"] = 115 * (Pt \div 2)

C3_Witness ==
    /\ sCalled
    /\ sGsc = None /\ sGa4 = None /\ sMeta = None
    /\ sResult["overall"] = 115 * (Pt \div 2)

----------------------------------------------------------------------------
(* Claims about the metric trend, under SpecTrend *)

\* C6: with previous = 0 the result has direction "new" and percent change 0,
\* whatever current is.
C6_ZeroPreviousIsNew ==
    (tCalled /\ tPrevious = 0) =>
        /\ tResult["direction"] = "new"
        /\ tResult["change_pct"] = 0

C6_Witness ==
    /\ tCalled /\ tPrevious = 0 /\ tCurrent = 0
    /\ tResult["direction"] = "new"

\* C7: with previous # 0, change_pct is (current - previous) / previous * 100
\* rounded to the nearest tenth, and direction is up / down / stable as current
\* is greater than / less than / equal to previous; (150, 100) gives 50.0, up.
C7_PercentChangeAndDirection ==
    (tCalled /\ tPrevious # 0) =>
        /\ 2 * Abs(tResult["change_pct"] * tPrevious
                     - 1000 * (tCurrent - tPrevious)) <= Abs(tPrevious)
        /\ tResult["direction"] =
              (IF tCurrent > tPrevious THEN "up"
               ELSE IF tCurrent < tPrevious THEN "down" ELSE "stable")
        /\ (tResult["direction"] = "stable") = (tCurrent = tPrevious)
        /\ (tCurrent = 150 /\ tPrevious = 100)
              => (tResult["change_pct"] = 500 /\ tResult["direction"] = "up")

C7_Witness ==
    /\ tCalled /\ tCurrent = 150 /\ tPrevious = 100
    /\ tResult["change_pct"] = 500

TrendFields == {"current", "previous", "change", "change_pct", "direction"}

\* C8: every result of _calculate_trend carries current, previous, absolute
\* change, percent change and a direction in {up, down, stable, new}.
C8_AllTrendFields ==
    tCalled =>
        /\ TrendFields \subseteq DOMAIN tResult
        /\ tResult["direction"] \in {"up", "down", "stable", "new"}

----------------------------------------------------------------------------
(* Claims about generate_unified_report, under SpecReport *)

\* channels = [] or None stands for the default, all three channels
Requested(ch) == rRequested = {} \/ ch \in rRequested

GscUnavailable ==
    ~Requested("gsc") \/ ~rGsc.ok \/ rGsc.payload = <<>>

Ga4Unavailable ==
    \/ ~Requested("ga4")
    \/ ~rGa4.ok
    \/ ~NonEmpty(rGa4.payload)
    \/ Get(rGa4.payload, "rows", <<>>) = <<>>

MetaUnavailable ==
    \/ ~Requested("meta")
    \/ ~rMeta.ok
    \/ ~NonEmpty(rMeta.payload)
    \/ Get(rMeta.payload, "data", <<>>) = <<>>

\* C4: a channel that was not requested, whose fetch failed or whose payload is
\* empty has an empty record in report.channels and the category score 50,
\* whatever the other channels returned.
C4_UnavailableChannelNeutral ==
    rCalled =>
        /\ GscUnavailable =>
              /\ rResult["channels"]["gsc"] = EmptyDict
              /\ rResult["scores"]["search_visibility"] = 50 * Pt
        /\ Ga4Unavailable =>
              /\ rResult["channels"]["ga4"] = EmptyDict
              /\ rResult["scores"]["ga4_performance"] = 50 * Pt
        /\ MetaUnavailable =>
              /\ rResult["channels"]["meta"] = EmptyDict
              /\ rResult["scores"]["meta_performance"] = 50 * Pt

C4_Witness ==
    /\ rCalled
    /\ rRequested = AllChannels
    /\ ~rMeta.ok
    /\ NonEmpty(rResult["channels"]["gsc"])
    /\ NonEmpty(rResult["channels"]["ga4"])
    /\ rResult["channels"]["meta"] = EmptyDict
    /\ rResult["scores"]["meta_performance"] = 50 * Pt

----------------------------------------------------------------------------
(* Claims about the trend engine, under Spec.  At pc = "trended" the run's   *)
(* trends were computed from the history as it stands.                      *)

CurrentReport == json_load(history)[Len(history)].report

PreviousReport == json_load(history)[Len(history) - 1].report

\* C5: on a history of fewer than 2 snapshots analyze_trends returns the
\* insufficient_data sentinel, a status and a message and no trend entry; the
\* trends endpoint then answers with a message and no trend data.
C5_InsufficientDataSentinel ==
    /\ (pc = "trended" /\ Len(history) < 2) =>
          /\ DOMAIN trends = {"status", "message"}
          /\ trends["status"] = "insufficient_data"
          /\ trends["message"] # ""
    /\ (resp.status = 200 /\ Len(history) < 2) =>
          /\ resp.body["data"] = None
          /\ resp.body["message"] # ""

C5_Witness ==
    /\ pc = "trended"
    /\ Len(history) = 1
    /\ trends["status"] = "insufficient_data"

\* C9: the search trend's position_change is previous.average_position minus
\* current.average_position, positive when the ranking improved: previous 10,
\* current 4 gives +6.
C9_PositionChangeSign ==
    (pc = "trended" /\ Len(history) >= 2 /\ "gsc" \in DOMAIN trends) =>
        LET prevPos == PreviousReport["channels"]["gsc"]["average_position"]
            curPos == CurrentReport["channels"]["gsc"]["average_position"]
        IN  /\ trends["gsc"]["position_change"] = prevPos - curPos
            /\ (trends["gsc"]["position_change"] > 0) = (curPos < prevPos)
            /\ (prevPos = 1000 /\ curPos = 400)
                  => trends["gsc"]["position_change"] = 600

C9_Witness ==
    /\ pc = "trended"
    /\ Len(history) >= 2
    /\ "gsc" \in DOMAIN trends
    /\ PreviousReport["channels"]["gsc"]["average_position"] = 1000
    /\ CurrentReport["channels"]["gsc"]["average_position"] = 400
    /\ trends["gsc"]["position_change"] = 600

\* C10: for a history of at least 2 snapshots the overall trend has
\* score_change = current overall score - previous overall score, and direction
\* up if that is > 0, down if < 0, stable otherwise.
C10_OverallTrend ==
    (pc = "trended" /\ Len(history) >= 2) =>
        LET diff == CurrentReport["overall_score"] - PreviousReport["overall_score"]
        IN  /\ "overall" \in DOMAIN trends
            /\ trends["overall"]["score_change"] = diff
            /\ trends["overall"]["direction"] =
                  (IF diff > 0 THEN "up" ELSE IF diff < 0 THEN "down" ELSE "stable")

C10_Witness ==
    /\ pc = "trended"
    /\ Len(history) >= 2
    /\ trends["overall"]["direction"] = "up"
    /\ trends["overall"]["score_change"] > 0
    /\ CurrentReport["overall_score"] > PreviousReport["overall_score"]

\* C11: in every analysis run the run's report is stored as a snapshot before
\* the trends are computed: when the trends of a run have been computed, the
\* last snapshot of the history is the report of that run.
C11_SnapshotBeforeTrends ==
    pc = "trended" =>
        /\ Len(history) >= 1
        /\ CurrentReport = report

----------------------------------------------------------------------------
(* Claims about the recommendation generators, under SpecRecs *)

\* the history generate_growth_recommendations loads
RecHistory == load_historical_data(fileExists, TRUE, history)

TrendTitles ==
    {"Search Traffic Declining", "Rankings Improving", "Bounce Rate Increasing",
     "Conversions Growing", "Social Reach Growing"}

ThresholdTitles == {"High Bounce Rate", "Position 5-10 Opportunity", "Low Engagement"}

FillerTitles == {"Content Gap Analysis", "Referral Traffic Strategy"}

DefaultTitles == <<"Complete GA4 Setup", "Keyword Research", "Content Calendar">>

Titles(recs) == [i \in 1 .. Len(recs) |-> recs[i].title]

\* C12: the lists returned by generate_growth_recommendations and by
\* _generate_recommendations never have more than 8 items.
C12_AtMostEight ==
    /\ gCalled => Len(gResult) <= 8
    /\ nCalled => Len(nResult) <= 8

\* nine rules fire and the list returned has eight items
C12_Witness ==
    /\ gCalled
    /\ RecHistory # <<>>
    /\ Get(Get(gTrends, "gsc", EmptyDict), "direction", "") = "down"
    /\ Get(Get(gTrends, "ga4", EmptyDict), "bounce_rate_change", 0) < -50
    /\ Get(Get(gTrends, "meta", EmptyDict), "impressions_change", EmptyDict) = UpTrend
    /\ Len(gResult) = 8
    /\ gResult[8].title = "Content Gap Analysis"
    /\ nCalled
    /\ Len(nResult) = 4

\* generation stage of an item: 1 trend rule, 2 threshold rule, 3 filler
Stage(rec) ==
    IF rec.title \in TrendTitles THEN 1
    ELSE IF rec.title \in ThresholdTitles THEN 2
    ELSE IF rec.title \in FillerTitles THEN 3
    ELSE 0

\* C13: with a non-empty history every trend-driven item (Critical or Growth)
\* comes before every threshold item (High or Medium), the growth-opportunity
\* fillers come last, and the cap keeps the first 8 in that order.
C13_GenerationOrder ==
    (gCalled /\ RecHistory # <<>>) =>
        /\ \A i \in 1 .. Len(gResult) : Stage(gResult[i]) \in 1 .. 3
        /\ \A i \in 1 .. Len(gResult) : \A j \in 1 .. Len(gResult) :
              i < j => Stage(gResult[i]) <= Stage(gResult[j])
        /\ \A i \in 1 .. Len(gResult) :
              /\ Stage(gResult[i]) = 1 => gResult[i].priority \in {"Critical", "Growth"}
              /\ Stage(gResult[i]) = 2 => gResult[i].priority \in {"High", "Medium"}
        \* the fillers are the tail of the list, cut by the cap only
        /\ Len(gResult) >= 2
        /\ Len(gResult) < 8 =>
              /\ gResult[Len(gResult) - 1].title = "Content Gap Analysis"
              /\ gResult[Len(gResult)].title = "Referral Traffic Strategy"
        /\ Len(gResult) = 8 =>
              \/ /\ gResult[7].title = "Content Gap Analysis"
                 /\ gResult[8].title = "Referral Traffic Strategy"
              \/ /\ Stage(gResult[7]) = 2
                 /\ gResult[8].title = "Content Gap Analysis"

\* trend items, threshold items and a filler in one list
C13_Witness ==
    /\ gCalled
    /\ RecHistory # <<>>
    /\ Len(gResult) = 5
    /\ Stage(gResult[1]) = 1
    /\ Stage(gResult[2]) = 1
    /\ Stage(gResult[3]) = 2
    /\ Stage(gResult[4]) = 3

\* C14: with no snapshot in the history the result is the default onboarding
\* set (Complete GA4 Setup, Keyword Research, Content Calendar) whatever the
\* trends argument is; with a non-empty history it is never that set.
C14_DefaultSetIffNoHistory ==
    gCalled =>
        /\ RecHistory = <<>> =>
              /\ Titles(gResult) = DefaultTitles
              /\ gResult = _get_default_recommendations
        /\ RecHistory # <<>> =>
              /\ gResult # _get_default_recommendations
              /\ \A i \in 1 .. Len(gResult) :
                    \A j \in 1 .. Len(DefaultTitles) : gResult[i].title # DefaultTitles[j]

\* no history, a trends argument with entries, and the default set
C14_Witness ==
    /\ gCalled
    /\ RecHistory = <<>>
    /\ "gsc" \in DOMAIN gTrends
    /\ Titles(gResult) = DefaultTitles

----------------------------------------------------------------------------
(* Claims about the channel normalizers, under SpecReport *)

GscKeys ==
    {"total_queries", "total_clicks", "total_impressions", "average_ctr",
     "average_position", "top_3_rankings", "positions_4_10", "top_queries"}

Ga4Keys ==
    {"total_sessions", "total_users", "total_pageviews", "avg_session_duration",
     "bounce_rate", "conversions", "conversion_rate", "device_breakdown",
     "source_breakdown"}

MetaKeys ==
    {"total_impressions", "total_engaged_users", "total_fans", "engagement_rate",
     "avg_daily_impressions", "avg_daily_engaged", "page_views", "post_engagements",
     "recent_posts", "audience", "ads_insights"}

\* generate_unified_report hands the channel's raw payload to its normalizer
GscNormalized == Requested("gsc") /\ fetch_gsc_analytics(rGsc) # <<>>

Ga4Normalized == Requested("ga4") /\ NonEmpty(fetch_ga4_analytics(rGa4))

MetaNormalized == Requested("meta") /\ NonEmpty(fetch_meta_insights(rMeta))

\* C19: for every raw payload, an empty one included, the record a normalizer
\* returns holds every expected key of its channel; no field is absent.
C19_AllKeysPresent ==
    rCalled =>
        /\ GscNormalized => GscKeys \subseteq DOMAIN rResult["channels"]["gsc"]
        /\ Ga4Normalized => Ga4Keys \subseteq DOMAIN rResult["channels"]["ga4"]
        /\ MetaNormalized => MetaKeys \subseteq DOMAIN rResult["channels"]["meta"]

\* x is n / d rounded to the nearest 1 / 10000
IsRate(x, n, d) == 2 * Abs(x * d - n * 10000) <= d

\* C20: the derived rates never divide by zero: conversion_rate is
\* conversions / sessions and 0 when sessions = 0, engagement_rate is
\* engaged users / impressions and 0 when impressions = 0, average_ctr and
\* average_position are 0 when the total impressions are 0.
C20_RatesGuardZero ==
    rCalled =>
        LET gsc == rResult["channels"]["gsc"]
            ga4 == rResult["channels"]["ga4"]
            meta == rResult["channels"]["meta"]
        IN  /\ (NonEmpty(gsc) /\ gsc["total_impressions"] = 0) =>
                  gsc["average_ctr"] = 0 /\ gsc["average_position"] = 0
            /\ NonEmpty(ga4) =>
                  IF ga4["total_sessions"] = 0 THEN ga4["conversion_rate"] = 0
                  ELSE IsRate(ga4["conversion_rate"], ga4["conversions"],
                              ga4["total_sessions"])
            /\ NonEmpty(meta) =>
                  IF meta["total_impressions"] = 0 THEN meta["engagement_rate"] = 0
                  ELSE IsRate(meta["engagement_rate"], meta["total_engaged_users"],
                              meta["total_impressions"])

\* rows without impressions, no sessions, no impressions: all rates are 0
C20_Witness ==
    /\ rCalled
    /\ NonEmpty(rResult["channels"]["gsc"])
    /\ rResult["channels"]["gsc"]["total_impressions"] = 0
    /\ \E i \in 1 .. Len(rGsc.payload) : Get(rGsc.payload[i], "position", 0) > 0
    /\ rResult["channels"]["gsc"]["average_position"] = 0
    /\ NonEmpty(rResult["channels"]["ga4"])
    /\ rResult["channels"]["ga4"]["total_sessions"] = 0
    /\ rResult["channels"]["ga4"]["conversion_rate"] = 0
    /\ NonEmpty(rResult["channels"]["meta"])
    /\ rResult["channels"]["meta"]["total_impressions"] = 0
    /\ rResult["channels"]["meta"]["engagement_rate"] = 0

----------------------------------------------------------------------------
(* Claims about the history store, under SpecStore *)

\* the snapshots saved so far that the latest save retains
RetainedSaves ==
    LET latest == saved[Len(saved)].date
        Kept(h) == h.date > latest - RetentionDays
    IN  SelectSeq(saved, Kept)

\* C15: after any sequence of saves and loads the stored history is exactly
\* the snapshots saved so far whose date is within 90 days of the latest save,
\* in save order and with unchanged content, the latest last; an entry
\* disappears only through the retention pruning, never through a failed load.
C15_HistoryIsRetainedSaves ==
    saved # <<>> =>
        LET stored == json_load(history)
        IN  /\ fileExists
            /\ Len(stored) = Len(RetainedSaves)
            /\ \A i \in 1 .. Len(stored) :
                  /\ fromisoformat(stored[i].date) = RetainedSaves[i].date
                  /\ stored[i].report = RetainedSaves[i].report

----------------------------------------------------------------------------
(* Claims about analyze_trends on any history, under SpecCall *)

\* the last two entries of a list
LastTwo(s) == SubSeq(s, Len(s) - 1, Len(s))

\* C17: analyze_trends owns no state: on a history of at least 2 entries its
\* result is the one it gives on the last two entries alone, and the call
\* leaves the history file and the analyst's weights unchanged.
C17_TrendsOwnNoState ==
    [][(~aCalled /\ aCalled') =>
          /\ UNCHANGED <<fileExists, history, weights>>
          /\ Len(history) >= 2 =>
                aResult' = ComputeTrends(LastTwo(json_load(history))[2].report,
                                         LastTwo(json_load(history))[1].report)]_vars

\* three snapshots, the first different from the second, and a trend set
C17_Witness ==
    /\ aCalled
    /\ Len(history) = 3
    /\ json_load(history)[1].report # json_load(history)[2].report
    /\ "gsc" \in DOMAIN aResult
    /\ "overall" \in DOMAIN aResult

\* a missing numeric field read as 0
Val(d, k) == IF k \in DOMAIN d THEN d[k] ELSE 0

\* a missing channels object or channel read as no record
Record(rep, ch) ==
    IF "channels" \in DOMAIN rep /\ ch \in DOMAIN rep["channels"]
    THEN rep["channels"][ch] ELSE EmptyDict

\* C18: on a history of at least 2 entries whose snapshots lack keys (the
\* channels object, a channel's metric, the overall score) analyze_trends
\* returns a trend set, every trend of which is the one of the snapshots with
\* each missing numeric field taken as 0.
C18_MissingKeysAsZero ==
    (aCalled /\ Len(history) >= 2) =>
        LET cur == json_load(history)[Len(history)].report
            prev == json_load(history)[Len(history) - 1].report
            Both(ch) == NonEmpty(Record(cur, ch)) /\ NonEmpty(Record(prev, ch))
            Same(t, ch, k) ==
                /\ t["current"] = Val(Record(cur, ch), k)
                /\ t["previous"] = Val(Record(prev, ch), k)
                /\ t["previous"] # 0 => t["change"] = t["current"] - t["previous"]
        IN  /\ "status" \notin DOMAIN aResult
            /\ "overall" \in DOMAIN aResult
            /\ aResult["overall"]["score_change"]
                  = Val(cur, "overall_score") - Val(prev, "overall_score")
            /\ \A ch \in AllChannels : (ch \in DOMAIN aResult) = Both(ch)
            /\ Both("gsc") =>
                  /\ Same(aResult["gsc"], "gsc", "total_clicks")
                  /\ aResult["gsc"]["position_change"]
                        = Val(Record(prev, "gsc"), "average_position")
                            - Val(Record(cur, "gsc"), "average_position")
            /\ Both("ga4") =>
                  /\ Same(aResult["ga4"]["sessions_change"], "ga4", "total_sessions")
                  /\ Same(aResult["ga4"]["conversions_change"], "ga4", "conversions")
                  /\ aResult["ga4"]["bounce_rate_change"]
                        = Val(Record(prev, "ga4"), "bounce_rate")
                            - Val(Record(cur, "ga4"), "bounce_rate")
            /\ Both("meta") =>
                  /\ Same(aResult["meta"]["impressions_change"], "meta",
                          "total_impressions")
                  /\ Same(aResult["meta"]["engagement_change"], "meta",
                          "engagement_rate")

\* a snapshot without overall_score and without the metrics, after a full one
C18_Witness ==
    /\ aCalled
    /\ Len(history) >= 2
    /\ LET cur == json_load(history)[Len(history)].report
           prev == json_load(history)[Len(history) - 1].report
       IN  /\ "overall_score" \notin DOMAIN cur
           /\ NonEmpty(Record(cur, "gsc"))
           /\ "total_clicks" \notin DOMAIN Record(cur, "gsc")
           /\ Val(Record(prev, "gsc"), "total_clicks") > 0
           /\ Val(prev, "overall_score") > 0
    /\ aResult["gsc"]["current"] = 0
    /\ aResult["gsc"]["direction"] = "down"
    /\ aResult["overall"]["score_change"] < 0

----------------------------------------------------------------------------
(* Aggregation of the query rows *)

\* the sum of field k over the rows, a missing field counting 0
RowTotal(rows, k) == SumSeq([i \in 1 .. Len(rows) |-> Get(rows[i], k, 0)])

\* the sum of position * impressions over the rows
RowWeighted(rows) ==
    SumSeq([i \in 1 .. Len(rows) |->
               Get(rows[i], "position", 0) * Get(rows[i], "impressions", 0)])

\* x is n / d rounded to the nearest unit
IsNearest(x, n, d) == 2 * Abs(x * d - n) <= d

\* C21: over several query rows with impressions, average_ctr is the total
\* clicks over the total impressions and average_position is the sum of
\* position * impressions over the total impressions, neither one a plain
\* mean over the rows.
C21_ImpressionWeighted ==
    (rCalled /\ GscNormalized) =>
        LET rows == fetch_gsc_analytics(rGsc)
            gsc == rResult["channels"]["gsc"]
            clicks == RowTotal(rows, "clicks")
            impressions == RowTotal(rows, "impressions")
        IN  impressions > 0 =>
              /\ IsNearest(gsc["average_ctr"], clicks * 10000, impressions)
              /\ IsNearest(gsc["average_position"], RowWeighted(rows), impressions)

\* two rows of unequal impressions: 150 clicks on 3000 impressions, and the
\* weighted position 7.5 where the plain mean is 6.25
C21_Witness ==
    /\ rCalled
    /\ GscNormalized
    /\ Len(fetch_gsc_analytics(rGsc)) = 2
    /\ rResult["channels"]["gsc"]["total_impressions"] = 3000
    /\ rResult["channels"]["gsc"]["average_ctr"] = 500
    /\ rResult["channels"]["gsc"]["average_position"] = 750

----------------------------------------------------------------------------
(* The search visibility score *)

\* min(100, clicks / 100 + impressions / 1000), in 1/1000 point
VisibilityComponent(d) ==
    Min(100 * 1000, d["total_clicks"] * 10 + d["total_impressions"])

\* max(0, 100 - (avg_position - 1) * 5), in 1/1000 point
ContentComponent(d) == Max(0, 100 * 1000 - (d["average_position"] - 100) * 50)

SearchKeys == {"total_clicks", "total_impressions", "average_position"}

\* C22: for a search record, search_visibility is
\* (visibility_component + content_component) / 2 clamped to [0, 100], with
\* visibility_component = min(100, clicks / 100 + impressions / 1000) and
\* content_component = max(0, 100 - (avg_position - 1) * 5).
C22_SearchVisibilityFormula ==
    (sCalled /\ Truthy(sGsc) /\ SearchKeys \subseteq DOMAIN sGsc[1]) =>
        sResult["search_visibility"] =
            Max(0, Min(100 * Pt,
                       VisibilityComponent(sGsc[1]) + ContentComponent(sGsc[1])))

----------------------------------------------------------------------------
(* The fields of a recommendation *)

Priorities == {"Critical", "High", "Growth", "Medium", "Low"}

IsRecommendation(r) ==
    /\ "priority" \in DOMAIN r
    /\ r["priority"] \in Priorities
    /\ "category" \in DOMAIN r \/ "channel" \in DOMAIN r
    /\ {"title", "description", "action", "impact", "timeline"} \subseteq DOMAIN r

AllRecommendations(recs) == \A i \in 1 .. Len(recs) : IsRecommendation(recs[i])

\* C23: every item of generate_growth_recommendations, of
\* _get_default_recommendations and of _generate_recommendations has a
\* priority among Critical, High, Growth, Medium, Low and carries a category
\* or channel, a title, a description, an action, an impact and a timeline.
C23_RecommendationFields ==
    /\ AllRecommendations(_get_default_recommendations)
    /\ gCalled => AllRecommendations(gResult)
    /\ nCalled => AllRecommendations(nResult)

----------------------------------------------------------------------------
(* Saves of several runs *)

\* C25: the writes to one site's history are serialized: when the
\* save_historical_data calls of two analysis runs interleave, the history
\* holds both snapshots afterwards; no save is lost.
C25_NoSaveLost ==
    (\A p \in Runs : svPc[p] = "done") =>
        LET stored == json_load(history)
        IN  /\ Len(stored) = Len(saved)
            /\ \A p \in Runs :
                  \E i \in 1 .. Len(stored) : stored[i].report = svReport[p]

----------------------------------------------------------------------------
(* The bounce rate trend and its recommendation *)

HasTitle(recs, title) == \E i \in 1 .. Len(recs) : recs[i].title = title

\* C26: the web trend's bounce_rate_change is the previous bounce rate minus
\* the current one, and generate_growth_recommendations emits "Bounce Rate
\* Increasing" exactly when a web trend is present and the current bounce
\* rate is above the previous one by more than 0.05; never when the bounce
\* rate fell or stayed the same.
C26_BounceRateChange ==
    (aCalled /\ Len(history) >= 2) =>
        LET cur == Record(json_load(history)[Len(history)].report, "ga4")
            prev == Record(json_load(history)[Len(history) - 1].report, "ga4")
            present == NonEmpty(cur) /\ NonEmpty(prev)
            rise == Val(cur, "bounce_rate") - Val(prev, "bounce_rate")
        IN  /\ present => aResult["ga4"]["bounce_rate_change"] = -rise
            /\ gCalled =>
                  (HasTitle(gResult, "Bounce Rate Increasing") <=> (present /\ rise > 50))

\* the bounce rate rose from 0.45 to 0.535 and the item is emitted
C26_Witness ==
    /\ aCalled
    /\ gCalled
    /\ Len(history) >= 2
    /\ Val(Record(json_load(history)[Len(history) - 1].report, "ga4"), "bounce_rate") = 450
    /\ Val(Record(json_load(history)[Len(history)].report, "ga4"), "bounce_rate") = 535
    /\ "ga4" \in DOMAIN aResult
    /\ aResult["ga4"]["bounce_rate_change"] = -85
    /\ HasTitle(gResult, "Bounce Rate Increasing")

\* a rise of exactly 0.05, from 0.45 to 0.5: no item
C26_AtThreshold ==
    /\ aCalled
    /\ gCalled
    /\ Len(history) >= 2
    /\ "ga4" \in DOMAIN aResult
    /\ aResult["ga4"]["bounce_rate_change"] = -50
    /\ ~HasTitle(gResult, "Bounce Rate Increasing")

----------------------------------------------------------------------------
(* The cap and the rules *)

IsRuleItem(rec) == rec.title \in TrendTitles \cup ThresholdTitles

\* C27: with a non-empty history the cap of 8 removes no trend or threshold
\* item: at most 7 of them fire in one call, "Search Traffic Declining" and
\* "Rankings Improving" never together, so "Content Gap Analysis" is always
\* in the list, only "Referral Traffic Strategy" can be cut, and the list has
\* between 2 and 8 items.
C27_CapCutsOnlyFiller ==
    (gCalled /\ RecHistory # <<>>) =>
        LET current == RecHistory[Len(RecHistory)].report
            fired == GscTrendRecs(gTrends) \o Ga4TrendRecs(gTrends)
                       \o MetaTrendRecs(gTrends) \o ThresholdRecs(current)
        IN  /\ Len(fired) <= 7
            /\ SelectSeq(gResult, IsRuleItem) = fired
            /\ ~(HasTitle(gResult, "Search Traffic Declining")
                   /\ HasTitle(gResult, "Rankings Improving"))
            /\ HasTitle(gResult, "Content Gap Analysis")
            /\ HasTitle(gResult, "Referral Traffic Strategy") <=> Len(fired) <= 6
            /\ Len(gResult) >= 2
            /\ Len(gResult) <= 8

\* seven rules fire: the list ends with "Content Gap Analysis" and
\* "Referral Traffic Strategy" is cut
C27_Witness ==
    /\ gCalled
    /\ RecHistory # <<>>
    /\ Len(SelectSeq(gResult, IsRuleItem)) = 7
    /\ Len(gResult) = 8
    /\ HasTitle(gResult, "Content Gap Analysis")
    /\ ~HasTitle(gResult, "Referral Traffic Strategy")

\* no rule fires: the list is the two fillers
C27_OnlyFillers ==
    /\ gCalled
    /\ RecHistory # <<>>
    /\ Titles(gResult) = <<"Content Gap Analysis", "Referral Traffic Strategy">>

----------------------------------------------------------------------------
(* Metrics that start from 0 *)

NoTrendItem(recs) == \A i \in 1 .. Len(recs) : recs[i].title \notin TrendTitles

\* C28: when the previous value of a metric is 0 its trend has direction
\* "new" and generate_growth_recommendations emits no direction-driven item
\* for it, whatever the current value: no "Search Traffic Declining" for
\* clicks, no "Conversions Growing" for conversions, no "Social Reach Growing"
\* for impressions; and given the insufficient_data sentinel as trends it
\* emits no trend-driven item at all.
C28_NewMetricsDriveNoItem ==
    (aCalled /\ gCalled) =>
        IF Len(history) < 2
        THEN /\ "status" \in DOMAIN gTrends
             /\ NoTrendItem(gResult)
        ELSE LET prev == json_load(history)[Len(history) - 1].report
             IN  /\ Val(Record(prev, "gsc"), "total_clicks") = 0
                      => ~HasTitle(gResult, "Search Traffic Declining")
                 /\ Val(Record(prev, "ga4"), "conversions") = 0
                      => ~HasTitle(gResult, "Conversions Growing")
                 /\ Val(Record(prev, "meta"), "total_impressions") = 0
                      => ~HasTitle(gResult, "Social Reach Growing")

\* conversions go from 0 to 12, impressions from 0 to 2030: both trends are
\* "new" and the list has neither item
C28_Witness ==
    /\ aCalled
    /\ gCalled
    /\ Len(history) >= 2
    /\ "ga4" \in DOMAIN gTrends
    /\ "meta" \in DOMAIN gTrends
    /\ gTrends["ga4"]["conversions_change"]["direction"] = "new"
    /\ gTrends["ga4"]["conversions_change"]["current"] = 12
    /\ gTrends["meta"]["impressions_change"]["direction"] = "new"
    /\ gTrends["meta"]["impressions_change"]["current"] > 0
    /\ ~HasTitle(gResult, "Conversions Growing")
    /\ ~HasTitle(gResult, "Social Reach Growing")

\* one snapshot: the trends are the sentinel, the list has the threshold
\* items and the fillers only
C28_Sentinel ==
    /\ aCalled
    /\ gCalled
    /\ Len(history) = 1
    /\ gTrends = InsufficientData
    /\ Len(gResult) >= 2
    /\ NoTrendItem(gResult)

----------------------------------------------------------------------------
(* The keys of a trend set *)

\* C29: a result of analyze_trends that is not the sentinel holds the key
\* overall and not the key status, and it holds the entry of a channel exactly
\* when both of the last two snapshots have a non-empty record of that
\* channel; a channel missing or empty in either snapshot gives no entry.
C29_TrendKeys ==
    aCalled =>
        IF "status" \in DOMAIN aResult
        THEN Len(history) < 2
        ELSE /\ Len(history) >= 2
             /\ "overall" \in DOMAIN aResult
             /\ DOMAIN aResult \subseteq AllChannels \cup {"overall"}
             /\ \A ch \in AllChannels :
                   ch \in DOMAIN aResult <=>
                     /\ NonEmpty(Record(json_load(history)[Len(history)].report, ch))
                     /\ NonEmpty(Record(json_load(history)[Len(history) - 1].report, ch))

\* the current snapshot has the three channels, the previous one an empty
\* search record and no social record: the trend set has the web entry only
C29_Witness ==
    /\ aCalled
    /\ Len(history) >= 2
    /\ \A ch \in AllChannels :
          NonEmpty(Record(json_load(history)[Len(history)].report, ch))
    /\ "gsc" \in DOMAIN Get(json_load(history)[Len(history) - 1].report, "channels",
                            EmptyDict)
    /\ Record(json_load(history)[Len(history) - 1].report, "gsc") = EmptyDict
    /\ Record(json_load(history)[Len(history) - 1].report, "meta") = EmptyDict
    /\ DOMAIN aResult = {"ga4", "overall"}

----------------------------------------------------------------------------
(* The estimate of engaged users *)

\* C30: for every Meta payload analyze_meta_performance normalizes, engaged
\* users is 5% of the impressions rounded down, so engagement_rate is at most
\* 0.05 and the meta_performance score of the record is at most 50.
C30_EngagementAtMostFivePercent ==
    (rCalled /\ MetaNormalized) =>
        LET meta == rResult["channels"]["meta"]
        IN  /\ NonEmpty(meta) =>
                  /\ 20 * meta["total_engaged_users"] <= meta["total_impressions"]
                  /\ meta["total_impressions"] < 20 * (meta["total_engaged_users"] + 1)
                  /\ meta["engagement_rate"] <= 500
            /\ rResult["scores"]["meta_performance"] <= 50 * Pt

\* 2030 impressions: 101 engaged users, rate 0.0498, score 49.8
C30_Witness ==
    /\ rCalled
    /\ MetaNormalized
    /\ NonEmpty(rResult["channels"]["meta"])
    /\ rResult["channels"]["meta"]["total_impressions"] = 2030
    /\ rResult["channels"]["meta"]["total_engaged_users"] = 101
    /\ rResult["channels"]["meta"]["engagement_rate"] = 498
    /\ 10 * rResult["scores"]["meta_performance"] = 498 * Pt

\* 1000 impressions: 50 engaged users, rate 0.05, score 50
C30_AtFivePercent ==
    /\ rCalled
    /\ MetaNormalized
    /\ NonEmpty(rResult["channels"]["meta"])
    /\ rResult["channels"]["meta"]["total_impressions"] = 1000
    /\ rResult["channels"]["meta"]["engagement_rate"] = 500
    /\ rResult["scores"]["meta_performance"] = 50 * Pt

====
